---- MODULE Spec2Model ----
(***************************************************************************)
(* Verification model of the basis-trading orchestrator                    *)
(* (src/basis_trader/basis_trader.py) and of the quoting modules it drives *)
(* on every tick (MarketData, LinearFader, QuoteAdjuster, OrderThrottle).  *)
(*                                                                         *)
(* Units.  Python floats are modelled by exact fixed-point integers:       *)
(*   prices            1/1000 of a price unit (a mid of 100.0 is 100000)   *)
(*   quantities        1/1000 of a base unit                               *)
(*   depth, basis      per mille (0.004 is 4)                              *)
(*   funding rate      1/10000 (0.0006 is 6)                               *)
(*   margin usage      tenths (0.3 is 3)                                   *)
(* The inputs are chosen so that every division the code performs is exact *)
(* in these units.  A Python Optional[float] is a sequence of length 0     *)
(* (None) or 1.                                                            *)
(***************************************************************************)
EXTENDS Integers, Sequences, FiniteSets, TLC

\* ------------------------------------------------------------------ bounds
StartTime == 10
MaxClockAdvance == 1

\* ------------------------------------------------------- Python primitives
None == <<>>
Some(v) == <<v>>
IsNone(x) == x = <<>>
Val(x) == x[1]
Abs(x) == IF x < 0 THEN -x ELSE x

BUY == "Buy"
SELL == "Sell"
PERP == "PERP"
SPOT == "SPOT"
InstrumentClass == {PERP, SPOT}

\* ------------------------------------------------------------ configuration
funding_rate_threshold == 5
basis_threshold == 3
margin_usage_threshold == 5
position_change_threshold == 2
quoting_kpis == << [depth |-> 10, size |-> 200], [depth |-> 20, size |-> 0] >>
penalty == 1000
time_throttle == 1
price_throttle == 1
quote_asset_precision == 100
base_asset_precision == 1
improve_bbo == FALSE

reference_account == "acctR"
quoting_account == "acctQ"

\* kinds of exception a handler lets escape
NoException == "none"

VARIABLES
    send_orders,            \* RiskManager.send_orders (config.trading.send_orders)
    quoting_class,          \* quoting_market.instrument_class
    md,                     \* MarketData per market: best bid / best ask
    now,                    \* time.time()
    last_time_we_sent_quotes,
    current_funding_rate,
    current_basis,
    current_margin_usage,
    current_perp_mid_price,
    current_spot_mid_price,
    trading_direction,
    account_ids_to_intended_quotes,
    account_ids_to_oids_to_be_cancelled,
    is_pending_cancel_all,
    is_pending_hedge,
    lastOp,                 \* the handler that ran last
    lastInput,              \* what it was given and what it read from its collaborators
    validateResult,         \* outcome of _validate_trading_conditions in it
    raised,                 \* the exception that escaped it
    calls,                  \* the BasisTrader helpers it called, in order
    requests,               \* the Order Manager requests it made, in order
    throttleInput,          \* the last OrderThrottle.on_order_book_tick call: what it was given
    throttleOutput,         \* ... and what it returned
    reduce_only,            \* RiskManager._reduce_only
    config_reduce_only,     \* RiskManager._config_reduce_only
    max_loss,               \* RiskManager._max_loss
    pnl_so_far,             \* RiskManager._pnl_so_far
    issues,                 \* the strategy TradingSwitch's open issues
    riskCheck,              \* the last _run_risk_checks call: what it read and the case it applied
    sides,                  \* the last is_sending_bids / is_sending_asks answers
    alert_key_to_last_alert_timestamp,
    alertSink,              \* the events enqueued at the alert sink: [key, time]
    alertCall,              \* the last raise_alert call: its arguments and whether it forwarded
    large_fill_cooldown_start_time,
    position_history,       \* None, or the MetricCollector's deque of position samples
    stopCheck,              \* the last should_stop_trading_on_large_position_change call
    poll,                   \* the last poll of the position-history collector
    twap_config,            \* TWAP's configuration as startup() read it
    twap_total_size,        \* TWAP._twap_total_size: the size still to be injected
    twap_delta,             \* RiskManager._twap_delta.delta
    twap_thread,            \* the TWAP thread: "not_started", "running" or "dead"
    twapStep,               \* the last TWAP interval: what it read and did
    trades,                 \* SimpleVWAP._trades
    total_pv,               \* SimpleVWAP._total_pv
    total_volume,           \* SimpleVWAP._total_volume
    vwapCall,               \* the last SimpleVWAP call and its result
    addedTrades,            \* every trade given to add_trade so far, in order
    maker_fee,              \* what get_maker_fee_by_account_id returns, per mille
    faderCall,              \* the last direct LinearFader call: inputs and result
    adjusterCall,           \* the last direct QuoteAdjuster call: inputs and result
    bucketed,               \* a BucketedVWAP: buckets, current bucket, totals, run() position
    bucketCall,             \* the last BucketedVWAP call and its result
    market_data,            \* a MarketData called directly: last update time, best bid / ask
    mdCall,                 \* the last direct MarketData call, and the latest tick before it
    limitCheck              \* the last Risk.is_within_risk_limits call: inputs and result

cfgVars == <<send_orders, quoting_class>>
envVars == <<md, now>>
metricVars == <<current_funding_rate, current_basis, current_margin_usage,
                current_perp_mid_price, current_spot_mid_price, trading_direction>>
stagedVars == <<account_ids_to_intended_quotes, account_ids_to_oids_to_be_cancelled>>
latchVars == <<is_pending_cancel_all, is_pending_hedge>>
obsVars == <<lastOp, lastInput, validateResult, raised, calls, requests>>
throttleVars == <<throttleInput, throttleOutput>>
riskVars == <<reduce_only, config_reduce_only, max_loss, pnl_so_far, issues, riskCheck>>
alertVars == <<alert_key_to_last_alert_timestamp, alertSink, alertCall>>
positionVars == <<large_fill_cooldown_start_time, position_history, stopCheck, poll>>
twapVars == <<twap_config, twap_total_size, twap_delta, twap_thread, twapStep>>
vwapVars == <<trades, total_pv, total_volume, vwapCall, addedTrades>>
quoteVars == <<maker_fee, faderCall, adjusterCall>>
bucketVars == <<bucketed, bucketCall>>
marketDataVars == <<market_data, mdCall>>
extraVars == <<bucketVars, marketDataVars, limitCheck>>
moreVars == <<sides, alertVars, positionVars, twapVars, vwapVars, quoteVars, extraVars>>
componentVars == <<throttleVars, riskVars, moreVars>>
vars == <<cfgVars, envVars, last_time_we_sent_quotes, metricVars, stagedVars,
          latchVars, obsVars, componentVars>>

reference_class == IF quoting_class = PERP THEN SPOT ELSE PERP

\* RiskManager.get_maker_fee_by_account_id, read on every adjustment
maker_fee_rate == maker_fee

\* ------------------------------------------------------------- MarketData
\* A book is [bids |-> <<prices>>, asks |-> <<prices>>], best level first.
Book(bids, asks) == [bids |-> bids, asks |-> asks]

\* MarketData.on_order_book_tick: the best bid / ask after ingesting a book.
MarketData_on_order_book_tick(book) ==
    [best_bid |-> IF book.bids # <<>> THEN Some(book.bids[1]) ELSE None,
     best_ask |-> IF book.asks # <<>> THEN Some(book.asks[1]) ELSE None]

\* MarketData.get_mid_price
get_mid_price(m) ==
    IF IsNone(m.best_bid) \/ IsNone(m.best_ask)
    THEN None
    ELSE Some((Val(m.best_bid) + Val(m.best_ask)) \div 2)

\* The books the feeds deliver in this model (perp mids 99.6, 100.3, 100.4 and a
\* one-sided book; spot mid 100.0 and a one-sided book).
PerpBooks == { Book(<<99500>>, <<99700>>), Book(<<100200>>, <<100400>>),
               Book(<<100300>>, <<100500>>), Book(<<100300>>, <<>>) }
SpotBooks == { Book(<<99900>>, <<100100>>), Book(<<>>, <<100100>>) }
Books(market) == IF market = PERP THEN PerpBooks ELSE SpotBooks

\* What MarketData.get_funding_rate / BasisTrader.get_margin_usage can do when
\* called: the bodies in the repository raise NotImplementedError; an
\* implementation honouring the declared Optional[float] returns None or a value.
Lookup(raises, value) == [raises |-> raises, value |-> value]
FundingLookups == { Lookup(TRUE, None), Lookup(FALSE, None), Lookup(FALSE, Some(-6)),
                    Lookup(FALSE, Some(5)), Lookup(FALSE, Some(6)) }
MarginLookups == { Lookup(TRUE, None), Lookup(FALSE, None), Lookup(FALSE, Some(3)),
                   Lookup(FALSE, Some(5)) }

\* ------------------------------------------- _validate_trading_conditions
\* basis = (perp_mid - spot_mid) / spot_mid, per mille
Basis(perp_mid, spot_mid) == ((perp_mid - spot_mid) * 1000) \div spot_mid

\* first branch: positive funding above threshold, basis above threshold, margin free
PositiveFundingConditions(funding, basis, margin) ==
    /\ funding > 0
    /\ funding > funding_rate_threshold
    /\ basis > basis_threshold
    /\ margin < margin_usage_threshold

\* the second branch with the basis compared unmirrored
NegativeFundingConditions_BasisNotMirrored(funding, basis, margin) ==
    /\ funding < 0
    /\ -funding > funding_rate_threshold
    /\ basis > basis_threshold
    /\ margin < margin_usage_threshold

\* second branch: the mirror for negative funding
NegativeFundingConditions(funding, basis, margin) ==
    /\ funding < 0
    /\ -funding > funding_rate_threshold
    /\ -basis > basis_threshold
    /\ margin < margin_usage_threshold

DirectionForPositiveFunding(qclass) == IF qclass = PERP THEN SELL ELSE BUY
\* the negative-funding direction copied from the positive branch
DirectionForNegativeFunding_NotMirrored(qclass) == IF qclass = PERP THEN SELL ELSE BUY
DirectionForNegativeFunding(qclass) == IF qclass = PERP THEN BUY ELSE SELL

\* The whole method: the fields it leaves behind, its result ("true", "false",
\* or "raised" with the exception that escapes it).
validate_trading_conditions(mds, fr, mu) ==
    LET pm == get_mid_price(mds[PERP])
        sm == get_mid_price(mds[SPOT])
        base == [result |-> "false", exc |-> NoException,
                 trading_direction |-> None,
                 perp |-> pm, spot |-> sm,
                 funding |-> current_funding_rate,
                 margin |-> current_margin_usage,
                 basis |-> current_basis]
    IN  IF fr.raises
        THEN [base EXCEPT !.result = "raised", !.exc = "NotImplementedError"]
        ELSE IF mu.raises
        THEN [base EXCEPT !.result = "raised", !.exc = "NotImplementedError",
                          !.funding = fr.value]
        ELSE LET got == [base EXCEPT !.funding = fr.value, !.margin = mu.value]
             IN  IF IsNone(pm) \/ IsNone(sm) \/ IsNone(fr.value) \/ IsNone(mu.value)
                 THEN got
                 ELSE IF Val(sm) = 0
                 THEN [got EXCEPT !.result = "raised", !.exc = "ZeroDivisionError"]
                 ELSE LET b == Basis(Val(pm), Val(sm))
                          withBasis == [got EXCEPT !.basis = Some(b)]
                      IN  IF PositiveFundingConditions(Val(fr.value), b, Val(mu.value))
                          THEN [withBasis EXCEPT !.result = "true",
                                    !.trading_direction =
                                        Some(DirectionForPositiveFunding(quoting_class))]
                          ELSE IF NegativeFundingConditions(Val(fr.value), b, Val(mu.value))
                          THEN [withBasis EXCEPT !.result = "true",
                                    !.trading_direction =
                                        Some(DirectionForNegativeFunding(quoting_class))]
                          ELSE withBasis

\* ------------------------------------------------------------ LinearFader
Min2(a, b) == IF a < b THEN a ELSE b
Max2(a, b) == IF a > b THEN a ELSE b

Quote(side, price, quantity, market_mid, quote_width) ==
    [side |-> side, price |-> price, quantity |-> quantity,
     market_mid |-> market_mid, quote_width |-> quote_width]

\* one ladder level: a bid and an ask, skipped when the dollar size is below 1
FaderLevelQuotes(level, market_mid, bounded_stf) ==
    IF level.size < 1
    THEN <<>>
    ELSE LET kpi_size == (level.size * 1000000) \div market_mid
             bid_price == (bounded_stf * (1000 - level.depth)) \div 1000
             ask_price == (bounded_stf * (1000 + level.depth)) \div 1000
         IN  << Quote(BUY, bid_price, kpi_size, market_mid, level.depth),
                Quote(SELL, ask_price, kpi_size, market_mid, level.depth) >>

RECURSIVE FaderQuotes(_, _, _)
FaderQuotes(kpis, market_mid, bounded_stf) ==
    IF kpis = <<>>
    THEN <<>>
    ELSE FaderLevelQuotes(Head(kpis), market_mid, bounded_stf)
            \o FaderQuotes(Tail(kpis), market_mid, bounded_stf)

\* the fader with the short-term fair value left unbounded
LinearFader_on_order_book_tick_Unbounded(kpis, enabled, delta, mid) ==
    IF kpis = <<>> \/ ~enabled
    THEN [exc |-> NoException, quotes |-> <<>>]
    ELSE IF IsNone(mid)
    THEN [exc |-> "TypeError", quotes |-> <<>>]
    ELSE [exc |-> NoException,
          quotes |-> FaderQuotes(kpis, Val(mid), Val(mid) - (delta * penalty))]
\* LinearFader.on_order_book_tick.  mid is RiskManager.get_market_mid(), an
\* Optional: subtracting from None raises TypeError.
LinearFader_on_order_book_tick(kpis, enabled, delta, mid) ==
    IF kpis = <<>> \/ ~enabled
    THEN [exc |-> NoException, quotes |-> <<>>]
    ELSE IF IsNone(mid)
    THEN [exc |-> "TypeError", quotes |-> <<>>]
    ELSE LET market_mid == Val(mid)
             short_term_fair == market_mid - (delta * penalty)
             bounded_stf == Min2(Max2(short_term_fair, (market_mid * 9) \div 10),
                                 (market_mid * 11) \div 10)
         IN  [exc |-> NoException,
              quotes |-> FaderQuotes(kpis, market_mid, bounded_stf)]

\* ---------------------------------------------------------- QuoteAdjuster
\* rounding that takes every price up to the grid
round_price_to_precision_Up(side, price, precision) ==
    IF precision = 0
    THEN price
    ELSE -(((-price) \div precision) * precision)
\* round_price_to_precision: bids floor, asks ceil
round_price_to_precision(side, price, precision) ==
    IF precision = 0
    THEN price
    ELSE IF side = BUY
    THEN (price \div precision) * precision
    ELSE -(((-price) \div precision) * precision)

\* round_number_to_precision: Python round(), half to even
round_number_to_precision(number, precision) ==
    IF number = 0 \/ precision = 0
    THEN number
    ELSE LET q == number \div precision
             r == number % precision
         IN  IF 2 * r < precision THEN q * precision
             ELSE IF 2 * r > precision THEN (q + 1) * precision
             ELSE IF q % 2 = 0 THEN q * precision
             ELSE (q + 1) * precision

\* is_price_more_aggressive (prices are non-zero here)
is_price_more_aggressive(price_a, price_b, side) ==
    IF side = BUY THEN price_a > price_b ELSE price_a < price_b

Away(side) == IF side = BUY THEN -1 ELSE 1

\* One pass of the loop body of QuoteAdjuster.on_order_book_tick for one quote.
\* market_vwap, vwap_buy, vwap_sell, best_bid, best_ask are Optionals.
AdjustQuote(q, best_bid, best_ask, widen, market_vwap, vwap_buy, vwap_sell) ==
    LET p0 == q.price
        p1 == IF q.side = BUY /\ ~IsNone(vwap_sell)
                     /\ is_price_more_aggressive(p0, Val(vwap_sell), BUY)
              THEN (Val(vwap_sell) * (1000 - q.quote_width)) \div 1000
              ELSE IF q.side = SELL /\ ~IsNone(vwap_buy)
                     /\ is_price_more_aggressive(p0, Val(vwap_buy), SELL)
              THEN (Val(vwap_buy) * (1000 + q.quote_width)) \div 1000
              ELSE p0
        p2 == IF ~IsNone(market_vwap) /\ is_price_more_aggressive(p1, Val(market_vwap), q.side)
              THEN (Val(market_vwap) * (1000 + Away(q.side) * q.quote_width)) \div 1000
              ELSE p1
        p3 == IF widen
              THEN p2 + Away(q.side) * ((q.market_mid * q.quote_width) \div 1000)
              ELSE p2
        needed == IF q.side = BUY THEN best_bid ELSE best_ask
        p4 == IF improve_bbo \/ IsNone(needed) THEN p3
              ELSE IF q.side = BUY /\ p3 > Val(best_bid) THEN Val(best_bid)
              ELSE IF q.side = SELL /\ p3 < Val(best_ask) THEN Val(best_ask)
              ELSE p3
        p5 == p4 + Away(q.side) * ((p4 * Max2(maker_fee_rate, 0)) \div 1000)
    IN  [exc |-> IF ~improve_bbo /\ IsNone(needed) THEN "TypeError" ELSE NoException,
         quote |-> Quote(q.side,
                         round_price_to_precision(q.side, p5, quote_asset_precision),
                         round_number_to_precision(q.quantity, base_asset_precision),
                         q.market_mid, q.quote_width)]

\* QuoteAdjuster.on_order_book_tick over the whole list; the first quote that
\* cannot be compared with an absent best bid / ask raises.
QuoteAdjuster_on_order_book_tick(quotes, m, widen, market_vwap, vwap_buy, vwap_sell) ==
    LET adj == [i \in 1..Len(quotes) |->
                   AdjustQuote(quotes[i], m.best_bid, m.best_ask, widen,
                               market_vwap, vwap_buy, vwap_sell)]
    IN  IF \E i \in 1..Len(quotes) : adj[i].exc # NoException
        THEN [exc |-> "TypeError", quotes |-> <<>>]
        ELSE [exc |-> NoException, quotes |-> [i \in 1..Len(quotes) |-> adj[i].quote]]

\* ---------------------------------------------------------- OrderThrottle
\* A live order as the registry reports it (the fields the throttle reads).
Order(order_id, side, price, market_mid, quote_width) ==
    [order_id |-> order_id, side |-> side, price |-> price,
     market_mid |-> market_mid, quote_width |-> quote_width]

\* index of the first live order with the quote's side and width, 0 if none
FirstMatch(q, orders) ==
    LET I == { i \in 1..Len(orders) :
                 orders[i].side = q.side /\ orders[i].quote_width = q.quote_width }
    IN  IF I = {} THEN 0 ELSE CHOOSE i \in I : \A j \in I : i <= j

\* the mid-move test taken at equality as well
has_mid_price_moved_OrEqual(q, o) ==
    Abs(q.market_mid - o.market_mid) * 1000 >= price_throttle * q.market_mid

\* |mid_new - mid_live| / mid_new > price_throttle (per mille; mids are positive)
has_mid_price_moved(q, o) ==
    Abs(q.market_mid - o.market_mid) * 1000 > price_throttle * q.market_mid

\* an equal price counted as more conservative
is_new_quote_more_conservative_OrEqual(q, o) ==
    \/ q.side = BUY /\ q.price <= o.price
    \/ q.side = SELL /\ q.price >= o.price

is_new_quote_more_conservative(q, o) ==
    \/ q.side = BUY /\ q.price < o.price
    \/ q.side = SELL /\ q.price > o.price

\* the intended quote replaces the live order it matches
Replaces(q, orders) ==
    LET i == FirstMatch(q, orders)
    IN  i # 0 /\ (has_mid_price_moved(q, orders[i])
                    \/ is_new_quote_more_conservative(q, orders[i]))

\* the time gate closed at exactly time_throttle as well
IsSnoozed_Inclusive(t, last, account) ==
    t - (IF account \in DOMAIN last THEN last[account] ELSE 0) <= time_throttle

\* The time gate: the account is snoozed
IsSnoozed(t, last, account) ==
    t - (IF account \in DOMAIN last THEN last[account] ELSE 0) < time_throttle

\* the throttle stamping the account's last-sent time on every call that
\* passes the time gate with live orders, whether or not it sends
OrderThrottle_on_order_book_tick_AlwaysStamps(raw_quotes, account, orders, t, last) ==
    IF IsSnoozed(t, last, account)
    THEN [quotes |-> <<>>, cancel |-> {}, last |-> last]
    ELSE IF orders = <<>>
    THEN [quotes |-> raw_quotes, cancel |-> {}, last |-> last]
    ELSE LET Sent(q) == FirstMatch(q, orders) = 0 \/ Replaces(q, orders)
             filtered == SelectSeq(raw_quotes, Sent)
             cancel == { orders[FirstMatch(raw_quotes[i], orders)].order_id :
                           i \in { k \in 1..Len(raw_quotes) :
                                     Replaces(raw_quotes[k], orders) } }
         IN  [quotes |-> filtered, cancel |-> cancel,
              last |-> [a \in DOMAIN last \cup {account} |->
                           IF a = account THEN t ELSE last[a]]]

\* the throttle cancelling every live order an intended quote matches, also
\* the ones it finds similar and does not replace
OrderThrottle_on_order_book_tick_CancelsSimilar(raw_quotes, account, orders, t, last) ==
    IF IsSnoozed(t, last, account)
    THEN [quotes |-> <<>>, cancel |-> {}, last |-> last]
    ELSE IF orders = <<>>
    THEN [quotes |-> raw_quotes, cancel |-> {}, last |-> last]
    ELSE LET Sent(q) == FirstMatch(q, orders) = 0 \/ Replaces(q, orders)
             filtered == SelectSeq(raw_quotes, Sent)
             cancel == { orders[FirstMatch(raw_quotes[i], orders)].order_id :
                           i \in { k \in 1..Len(raw_quotes) :
                                     FirstMatch(raw_quotes[k], orders) # 0 } }
         IN  [quotes |-> filtered, cancel |-> cancel,
              last |-> IF filtered # <<>>
                       THEN [a \in DOMAIN last \cup {account} |->
                                IF a = account THEN t ELSE last[a]]
                       ELSE last]

\* the throttle with the no-live-orders shortcut taken before the time gate
OrderThrottle_on_order_book_tick_NoOrdersFirst(raw_quotes, account, orders, t, last) ==
    IF orders = <<>>
    THEN [quotes |-> raw_quotes, cancel |-> {}, last |-> last]
    ELSE IF IsSnoozed(t, last, account)
    THEN [quotes |-> <<>>, cancel |-> {}, last |-> last]
    ELSE LET Sent(q) == FirstMatch(q, orders) = 0 \/ Replaces(q, orders)
             filtered == SelectSeq(raw_quotes, Sent)
             cancel == { orders[FirstMatch(raw_quotes[i], orders)].order_id :
                           i \in { k \in 1..Len(raw_quotes) :
                                     Replaces(raw_quotes[k], orders) } }
         IN  [quotes |-> filtered, cancel |-> cancel,
              last |-> IF filtered # <<>>
                       THEN [a \in DOMAIN last \cup {account} |->
                                IF a = account THEN t ELSE last[a]]
                       ELSE last]

\* OrderThrottle.on_order_book_tick: (quotes to send, order ids to cancel) and
\* the last-sent map it leaves behind.  orders is the registry's map for the
\* account and instrument, in iteration order.
OrderThrottle_on_order_book_tick(raw_quotes, account, orders, t, last) ==
    IF IsSnoozed(t, last, account)
    THEN [quotes |-> <<>>, cancel |-> {}, last |-> last]
    ELSE IF orders = <<>>
    THEN [quotes |-> raw_quotes, cancel |-> {}, last |-> last]
    ELSE LET Sent(q) == FirstMatch(q, orders) = 0 \/ Replaces(q, orders)
             filtered == SelectSeq(raw_quotes, Sent)
             cancel == { orders[FirstMatch(raw_quotes[i], orders)].order_id :
                           i \in { k \in 1..Len(raw_quotes) :
                                     Replaces(raw_quotes[k], orders) } }
         IN  [quotes |-> filtered, cancel |-> cancel,
              last |-> IF filtered # <<>>
                       THEN [a \in DOMAIN last \cup {account} |->
                                IF a = account THEN t ELSE last[a]]
                       ELSE last]

\* ------------------------------------------------------------- BasisTrader
EmptyDict == [k \in {} |-> {}]

\* dict.update({key: value})
DictUpdate(d, key, value) ==
    [k \in DOMAIN d \cup {key} |-> IF k = key THEN value ELSE d[k]]

\* What a handler reads from its collaborators while it runs:
\*   orders   order_registry.get_active_orders_by_market(account, instrument)
\*   widen    the adjuster's volatility / max-spread trackers ask for widening
\*   enabled  the strategy TradingSwitch.get_is_enabled()
\*   delta    RiskManager.get_total_risks().delta (the account manager's net
\*            position is fetched anew on every call)
\*   mid      RiskManager.get_market_mid()
Reads(orders, widen, enabled, delta, mid) ==
    [orders |-> orders, widen |-> widen, enabled |-> enabled, delta |-> delta, mid |-> mid]

\* The record kept of a handler's inputs: the market of a tick, the new
\* position of a net-position change, the delta and the switch state read,
\* and whether a funding-rate or margin-usage lookup raised.
Input(market, new_position, delta, enabled, lookup_raised) ==
    [market |-> market, new_position |-> new_position, delta |-> delta,
     enabled |-> enabled, lookup_raised |-> lookup_raised]
NoInput == Input("", 0, 0, TRUE, FALSE)

\* _on_trading_conditions_met: fader -> adjuster -> throttle, staged for the
\* quoting account.  v is the outcome of _validate_trading_conditions, mds the
\* market data after the tick.
on_trading_conditions_met(v, mds, env) ==
    LET untouched == [exc |-> NoException,
                      quotes |-> account_ids_to_intended_quotes,
                      oids |-> account_ids_to_oids_to_be_cancelled,
                      last |-> last_time_we_sent_quotes]
    IN  IF IsNone(v.basis)
        THEN untouched
        ELSE
        LET depth_to_dollar_size ==
                [i \in 1..Len(quoting_kpis) |->
                    [depth |-> quoting_kpis[i].depth + Val(v.basis),
                     size |-> quoting_kpis[i].size]]
            faded == LinearFader_on_order_book_tick(depth_to_dollar_size, env.enabled,
                                                    env.delta, env.mid)
            OnSide(q) == Some(q.side) = v.trading_direction
            raw_quotes == SelectSeq(faded.quotes, OnSide)
            adjusted == QuoteAdjuster_on_order_book_tick(raw_quotes, mds[quoting_class],
                                                         env.widen, None, None, None)
            throttled == OrderThrottle_on_order_book_tick(adjusted.quotes, quoting_account,
                                                          env.orders, now,
                                                          last_time_we_sent_quotes)
        IN  IF faded.exc # NoException
            THEN [untouched EXCEPT !.exc = faded.exc]
            ELSE IF adjusted.exc # NoException
            THEN [untouched EXCEPT !.exc = adjusted.exc]
            ELSE [exc |-> NoException,
                  quotes |-> DictUpdate(account_ids_to_intended_quotes,
                                        quoting_account, throttled.quotes),
                  oids |-> DictUpdate(account_ids_to_oids_to_be_cancelled,
                                      quoting_account, throttled.cancel),
                  last |-> throttled.last]

\* on_order_book_tick line 111: `await self._on_trading_conditions_met()`.  The
\* callee is a plain def, so it runs to completion and returns None, and
\* awaiting None raises TypeError.
AwaitOfMet(exc) == IF exc # NoException THEN exc ELSE "TypeError"

\* on_order_book_tick line 113: `self._on_trading_conditions_not_met()`.  The
\* callee is an async def and the call is not awaited: the coroutine object is
\* dropped and its body (which sets _is_pending_cancel_all) never runs.
NotMetBodyRuns == FALSE

\* BasisTrader.on_order_book_tick
on_order_book_tick(market, book, fr, mu, env) ==
    LET mds == [md EXCEPT ![market] = MarketData_on_order_book_tick(book)]
        v == validate_trading_conditions(mds, fr, mu)
        met == on_trading_conditions_met(v, mds, env)
    IN  /\ md' = mds
        /\ lastOp' = "on_order_book_tick"
        /\ lastInput' = Input(market, 0, env.delta, env.enabled, fr.raises \/ mu.raises)
        /\ requests' = <<>>
        /\ UNCHANGED <<cfgVars, now, is_pending_hedge, componentVars>>
        /\ IF market # reference_class
           THEN /\ validateResult' = "not_called"
                /\ raised' = NoException
                /\ calls' = <<>>
                /\ UNCHANGED <<metricVars, stagedVars, last_time_we_sent_quotes,
                               is_pending_cancel_all>>
           ELSE /\ validateResult' = v.result
                /\ current_perp_mid_price' = v.perp
                /\ current_spot_mid_price' = v.spot
                /\ current_funding_rate' = v.funding
                /\ current_margin_usage' = v.margin
                /\ current_basis' = v.basis
                /\ trading_direction' = v.trading_direction
                /\ CASE v.result = "raised" ->
                          /\ raised' = v.exc
                          /\ calls' = <<"_validate_trading_conditions">>
                          /\ UNCHANGED <<stagedVars, last_time_we_sent_quotes,
                                         is_pending_cancel_all>>
                     [] v.result = "true" ->
                          /\ raised' = AwaitOfMet(met.exc)
                          /\ calls' = <<"_validate_trading_conditions",
                                        "_on_trading_conditions_met">>
                          /\ account_ids_to_intended_quotes' = met.quotes
                          /\ account_ids_to_oids_to_be_cancelled' = met.oids
                          /\ last_time_we_sent_quotes' = met.last
                          /\ UNCHANGED is_pending_cancel_all
                     [] v.result = "false" ->
                          /\ raised' = NoException
                          /\ calls' = <<"_validate_trading_conditions",
                                        "_on_trading_conditions_not_met">>
                          /\ is_pending_cancel_all' =
                                (IF NotMetBodyRuns THEN TRUE ELSE is_pending_cancel_all)
                          /\ UNCHANGED <<stagedVars, last_time_we_sent_quotes>>

\* the early return taken at equality as well
PositionChangeIsSmall_OrEqual(new_position, last_position) ==
    Abs(new_position - last_position) <= position_change_threshold

\* on_net_position_change line 120: the early return
PositionChangeIsSmall(new_position, last_position) ==
    Abs(new_position - last_position) < position_change_threshold

\* BasisTrader.on_net_position_change; last_position is what
\* get_total_risks().delta returns during the call
on_net_position_change(new_position, last_position) ==
    /\ lastOp' = "on_net_position_change"
    /\ lastInput' = Input("", new_position, last_position, TRUE, FALSE)
    /\ validateResult' = "not_called"
    /\ raised' = NoException
    /\ calls' = <<>>
    /\ requests' = <<>>
    /\ IF PositionChangeIsSmall(new_position, last_position)
       THEN UNCHANGED latchVars
       ELSE /\ is_pending_cancel_all' = TRUE
            /\ is_pending_hedge' = TRUE
    /\ UNCHANGED <<cfgVars, envVars, last_time_we_sent_quotes, metricVars, stagedVars,
                   componentVars>>

\* Order Manager requests
CancelAllRequest(account_id, instrument) ==
    [request |-> "cancel_all_orders_request", account_id |-> account_id,
     instrument_id |-> instrument]
NewOrderRequest(account_id, instrument, order_type, side, price, quantity, post_only) ==
    [request |-> "new_order_request", account_id |-> account_id,
     instrument_id |-> instrument, order_type |-> order_type, side |-> side,
     price |-> price, quantity |-> quantity, post_only |-> post_only]

\* _cancel_all_orders without its send_orders guard
cancel_all_orders_Unguarded(so) ==
    << CancelAllRequest(quoting_account, quoting_class) >>

\* _cancel_all_orders: the requests it makes
cancel_all_orders(so) ==
    IF ~so THEN <<>> ELSE << CancelAllRequest(quoting_account, quoting_class) >>

\* _place_hedging_order: the requests it makes
place_hedging_order(order_type, side, price, quantity, so) ==
    IF ~so
    THEN <<>>
    ELSE << NewOrderRequest(reference_account, reference_class, order_type, side,
                            price, quantity, FALSE) >>

\* The attributes class OrderContext has (common/types/order.py): the two set
\* by __init__ and its methods.  _hedge_risk reads OrderContext.HEDGE.
OrderContextAttributes == {"market_mid", "quote_width", "__init__", "__str__", "__repr__"}

\* _hedge_risk: the arguments of the _place_hedging_order call are evaluated
\* first, and evaluating OrderContext.HEDGE raises AttributeError.
hedge_risk(delta_risk, so) ==
    LET side == IF delta_risk < 0 THEN BUY ELSE SELL
    IN  IF "HEDGE" \notin OrderContextAttributes
        THEN [exc |-> "AttributeError", requests |-> <<>>]
        ELSE [exc |-> NoException,
              requests |-> place_hedging_order("Market", side, 0, Abs(delta_risk), so)]

\* The methods class BasisTrader defines.  update_quotes calls self._cancel_order.
BasisTraderMethods ==
    {"on_order_book_tick", "on_net_position_change", "get_margin_usage",
     "_on_trading_conditions_met", "_on_trading_conditions_not_met",
     "_validate_trading_conditions", "update_quotes", "log_message_occasionally",
     "_place_order", "_place_quoting_order", "_place_hedging_order",
     "_batch_cancel_orders", "_cancel_all_orders", "_hedge_risk"}

\* update_quotes lines 253-260: `for acid, oids_to_cancel in <dict>` iterates
\* the keys, so each account id string is unpacked into two names: ValueError
\* unless it has exactly two characters, and then self._cancel_order does not
\* exist.  Neither a cancel_order_request nor a new_order_request for a staged
\* quote is reached either way.
cancel_staged_orders(oids_by_account, so) ==
    IF DOMAIN oids_by_account = {}
    THEN [exc |-> NoException, requests |-> <<>>]
    ELSE LET key == CHOOSE k \in DOMAIN oids_by_account : TRUE
         IN  IF Len(key) # 2
             THEN [exc |-> "ValueError", requests |-> <<>>]
             ELSE IF "_cancel_order" \notin BasisTraderMethods
             THEN [exc |-> "AttributeError", requests |-> <<>>]
             ELSE [exc |-> NoException, requests |-> <<>>]

\* BasisTrader.update_quotes; delta_risk is what get_total_risks().delta
\* returns if _hedge_risk asks for it
update_quotes(delta_risk) ==
    /\ lastOp' = "update_quotes"
    /\ lastInput' = Input("", 0, delta_risk, TRUE, FALSE)
    /\ validateResult' = "not_called"
    /\ UNCHANGED <<cfgVars, envVars, last_time_we_sent_quotes, metricVars, stagedVars,
                   componentVars>>
    /\ IF is_pending_cancel_all
       THEN /\ calls' = <<"_cancel_all_orders">>
            /\ requests' = cancel_all_orders(send_orders)
            /\ raised' = NoException
            /\ is_pending_cancel_all' = FALSE
            /\ UNCHANGED is_pending_hedge
       ELSE IF is_pending_hedge
       THEN LET h == hedge_risk(delta_risk, send_orders)
            IN  /\ calls' = <<"_hedge_risk">>
                /\ requests' = h.requests
                /\ raised' = h.exc
                /\ is_pending_hedge' = (IF h.exc = NoException THEN FALSE ELSE is_pending_hedge)
                /\ UNCHANGED is_pending_cancel_all
       ELSE LET c == cancel_staged_orders(account_ids_to_oids_to_be_cancelled, send_orders)
            IN  /\ calls' = <<>>
                /\ requests' = c.requests
                /\ raised' = c.exc
                /\ UNCHANGED latchVars

\* ------------------------------------------------------------- environment
\* a second passes
ClockAdvances ==
    /\ now < StartTime + MaxClockAdvance
    /\ now' = now + 1
    /\ lastOp' = "clock_advances"
    /\ lastInput' = NoInput
    /\ validateResult' = "not_called"
    /\ raised' = NoException
    /\ calls' = <<>>
    /\ requests' = <<>>
    /\ UNCHANGED <<cfgVars, md, last_time_we_sent_quotes, metricVars, stagedVars, latchVars,
                   componentVars>>

Positions == {-2, 0, 1}

\* ------------------------------------------------------------- RiskManager
\* np.inf, the bound of a Greek the configuration leaves unlimited
Infinity == 1000000

\* common/risk.py: a signed risk vector and the limits on it
Risk(delta, gamma, theta, vega, rho) ==
    [delta |-> delta, gamma |-> gamma, theta |-> theta, vega |-> vega, rho |-> rho]
RiskLimit(min_delta, max_delta, min_gamma, max_gamma) ==
    [min_delta |-> min_delta, max_delta |-> max_delta,
     min_gamma |-> min_gamma, max_gamma |-> max_gamma,
     min_theta |-> -Infinity, max_theta |-> Infinity,
     min_vega |-> -Infinity, max_vega |-> Infinity,
     min_rho |-> -Infinity, max_rho |-> Infinity]

\* config.trading.risk_limit: delta in [-10, 10], gamma in [-5, 5]
risk_limit == RiskLimit(-10, 10, -5, 5)

is_within_delta_limit(r, L) == L.min_delta <= r.delta /\ r.delta <= L.max_delta

is_within_risk_limits(r, L) ==
    /\ is_within_delta_limit(r, L)
    /\ L.min_gamma <= r.gamma /\ r.gamma <= L.max_gamma
    /\ L.min_theta <= r.theta /\ r.theta <= L.max_theta
    /\ L.min_vega <= r.vega /\ r.vega <= L.max_vega
    /\ L.min_rho <= r.rho /\ r.rho <= L.max_rho

is_reduce_only == reduce_only \/ config_reduce_only

\* What one _run_risk_checks call reads: get_total_risks() is recomputed from
\* the account manager's positions on every call, so the three reads (lines
\* 375, 385 and 395) can differ when the position moves during the check.
\*   delta   get_total_risks().delta at line 375
\*   again   get_total_risks().delta at line 385
\*   risks   get_total_risks() at line 395
RiskReads(delta, again, risks) == [delta |-> delta, again |-> again, risks |-> risks]

\* line 385: the proximity test.  0.8 * limit is compared in tenths.
\* The lower band reads `delta < self.get_total_risks().delta and
\* delta < 0.8 * min_delta`.
IsNearUpperLimit(delta) ==
    8 * risk_limit.max_delta < 10 * delta /\ delta < risk_limit.max_delta
IsNearLowerLimit(delta, again) ==
    delta < again /\ 10 * delta < 8 * risk_limit.min_delta

\* the branch of _run_risk_checks a call takes
RiskCase(reads) ==
    IF pnl_so_far < -max_loss THEN "max_loss"
    ELSE IF IsNearUpperLimit(reads.delta) \/ IsNearLowerLimit(reads.delta, reads.again)
    THEN "near_limit"
    ELSE IF ~is_within_risk_limits(reads.risks, risk_limit) THEN "limit_exceeded"
    ELSE "normal"

\* what every direct call of a component leaves in the handler observations
ObsReset(op) ==
    /\ lastOp' = op
    /\ lastInput' = NoInput
    /\ validateResult' = "not_called"
    /\ raised' = NoException
    /\ calls' = <<>>
    /\ requests' = <<>>

\* the BasisTrader's own fields, which no component call touches
traderVars == <<cfgVars, last_time_we_sent_quotes, metricVars, stagedVars, latchVars>>

\* RiskManager.is_sending_bids / is_sending_asks; delta is what
\* get_total_risks().delta returns to the call
is_sending_bids_OrFlat(delta) == ~(is_reduce_only /\ delta >= 0)
is_sending_bids(delta) == ~(is_reduce_only /\ delta > 0)

is_sending_asks(delta) == ~(is_reduce_only /\ delta < 0)

NoSides == [asked |-> FALSE, delta_bids |-> 0, delta_asks |-> 0,
            bids |-> TRUE, asks |-> TRUE]

\* one is_sending_bids() call followed by one is_sending_asks() call; each
\* reads the total delta for itself
sending_sides(delta_bids, delta_asks) ==
    /\ sides' = [asked |-> TRUE, delta_bids |-> delta_bids, delta_asks |-> delta_asks,
                 bids |-> is_sending_bids(delta_bids),
                 asks |-> is_sending_asks(delta_asks)]
    /\ ObsReset("is_sending")
    /\ UNCHANGED <<traderVars, envVars, throttleVars, extraVars, riskVars, alertVars, positionVars,
                   twapVars, vwapVars, quoteVars>>

\* alert_key_to_last_alert_timestamp.get(key, 0)
LastAlert(last, key) == IF key \in DOMAIN last THEN last[key] ELSE 0

AlertEvent(key, time) == [key |-> key, time |-> time]

\* RiskManager.raise_alert at time t: the map and the sink after the call, and
\* whether the alert was forwarded to datadog_service.enqueue_event
raise_alert_Inclusive(key, frequency_limit, t, last, sink) ==
    IF t - LastAlert(last, key) < frequency_limit
    THEN [last |-> last, sink |-> sink, forwarded |-> FALSE]
    ELSE [last |-> DictUpdate(last, key, t),
          sink |-> sink \cup {AlertEvent(key, t)}, forwarded |-> TRUE]
raise_alert(key, frequency_limit, t, last, sink) ==
    IF t - LastAlert(last, key) <= frequency_limit
    THEN [last |-> last, sink |-> sink, forwarded |-> FALSE]
    ELSE [last |-> DictUpdate(last, key, t),
          sink |-> sink \cup {AlertEvent(key, t)}, forwarded |-> TRUE]

AlertCall(key, frequency_limit, t, forwarded) ==
    [key |-> key, frequency_limit |-> frequency_limit, time |-> t, forwarded |-> forwarded]
NoAlertCall == AlertCall("", 0, 0, FALSE)

\* the alert state after one raise_alert call made now
AlertRaised(key, frequency_limit) ==
    LET r == raise_alert(key, frequency_limit, now, alert_key_to_last_alert_timestamp,
                         alertSink)
    IN  /\ alert_key_to_last_alert_timestamp' = r.last
        /\ alertSink' = r.sink
        /\ alertCall' = AlertCall(key, frequency_limit, now, r.forwarded)

\* a direct call of raise_alert
alert_call(key, frequency_limit) ==
    /\ AlertRaised(key, frequency_limit)
    /\ ObsReset("raise_alert")
    /\ UNCHANGED <<traderVars, envVars, throttleVars, extraVars, riskVars, sides, positionVars,
                   twapVars, vwapVars, quoteVars>>

InitAlerts ==
    /\ sides = NoSides
    /\ alert_key_to_last_alert_timestamp = EmptyDict
    /\ alertSink = {}
    /\ alertCall = NoAlertCall

\* the alert each case of _run_risk_checks raises (lines 378, 387, 397); the
\* frequency limits 900 s, 300 s, 900 s are in units of 300 s
RiskAlert(applied) ==
    CASE applied = "max_loss" -> [key |-> "pnl", frequency_limit |-> 3]
      [] applied = "near_limit" -> [key |-> "risk-near-limit", frequency_limit |-> 1]
      [] applied = "limit_exceeded" -> [key |-> "risk-over-limit", frequency_limit |-> 3]

\* RiskManager._run_risk_checks
run_risk_checks(reads) ==
    LET applied == RiskCase(reads)
    IN  /\ riskCheck' = [delta |-> reads.delta, again |-> reads.again,
                         risks |-> reads.risks, applied |-> applied]
        /\ issues' = CASE applied = "max_loss" -> issues \cup {"max_loss_reached"}
                       [] applied = "limit_exceeded" -> issues \cup {"risk_limit_exceeded"}
                       [] applied = "normal" ->
                            issues \ {"max_loss_reached", "risk_limit_exceeded"}
                       [] OTHER -> issues
        /\ reduce_only' = CASE applied = "near_limit" -> TRUE
                            [] applied = "normal" -> FALSE
                            [] OTHER -> reduce_only
        /\ lastOp' = "_run_risk_checks"
        /\ lastInput' = NoInput
        /\ validateResult' = "not_called"
        /\ raised' = NoException
        /\ calls' = <<>>
        /\ requests' = <<>>
        /\ IF applied = "normal"
           THEN UNCHANGED alertVars
           ELSE AlertRaised(RiskAlert(applied).key, RiskAlert(applied).frequency_limit)
        /\ UNCHANGED <<cfgVars, envVars, last_time_we_sent_quotes, metricVars, stagedVars,
                       latchVars, throttleVars, extraVars, config_reduce_only, max_loss, pnl_so_far,
                       sides, positionVars, twapVars, vwapVars, quoteVars>>

NoRiskCheck == [delta |-> 0, again |-> 0, risks |-> Risk(0, 0, 0, 0, 0), applied |-> "none"]

\* RiskManager after __init__ and startup()
InitRisk(reduceOnlyConfigs, maxLossConfigs) ==
    /\ reduce_only = TRUE
    /\ config_reduce_only \in reduceOnlyConfigs
    /\ max_loss \in maxLossConfigs
    /\ pnl_so_far = 0
    /\ issues = {}
    /\ riskCheck = NoRiskCheck

\* ------------------------------------- RiskManager: large position change
\* MetricCollector(max_length=300) at risk_manager.py:135, scaled to 3 samples
max_length == 3
\* config.trading.large_fill_lookback_period, in samples
large_fill_lookback_period == 2
\* config.trading.large_fill_threshold_usd: 200 USD, in 1/1000 USD
large_fill_threshold_usd == 200000
\* config.trading.large_fill_cooldown_time, in seconds
large_fill_cooldown_time == 2

large_position_change == "large position change"

\* deque(maxlen=max_length).append
DequeAppend(data, x) ==
    IF Len(data) < max_length THEN Append(data, x) ELSE Append(Tail(data), x)

\* one turn of the loop of MetricCollector._run: `if data_point:` is Python
\* truthiness, so a polled 0 is not a data point
MetricCollector_run(data, data_point) ==
    IF data_point # 0 THEN DequeAppend(data, data_point) ELSE data

NoPoll == [polled |-> FALSE, data_point |-> 0, before |-> <<>>, after |-> <<>>]

\* the collector thread polls get_spot_risk once
position_polled(data_point) ==
    /\ ~IsNone(position_history)
    /\ position_history' = Some(MetricCollector_run(Val(position_history), data_point))
    /\ poll' = [polled |-> TRUE, data_point |-> data_point,
                before |-> Val(position_history),
                after |-> MetricCollector_run(Val(position_history), data_point)]
    /\ ObsReset("MetricCollector._run")
    /\ UNCHANGED <<traderVars, envVars, throttleVars, extraVars, riskVars, sides, alertVars,
                   large_fill_cooldown_start_time, stopCheck, twapVars, vwapVars, quoteVars>>

\* the deque after the first lines of get_position_change_over_time: created
\* and filled with the current position when there was none
PositionHistoryFor(history, current_position) ==
    IF IsNone(history) THEN [i \in 1..max_length |-> current_position] ELSE Val(history)

\* RiskManager.get_position_change_over_time on that deque: data[-1] - data[-lookback]
get_position_change_over_time(data, lookback) ==
    LET capped == IF lookback > max_length THEN max_length ELSE lookback
    IN  data[Len(data)] - data[Len(data) - capped + 1]

StopCheck(large, in_cooldown, had_issue, result, exc, time) ==
    [large |-> large, in_cooldown |-> in_cooldown, had_issue |-> had_issue,
     result |-> result, exc |-> exc, time |-> time]
NoStopCheck == StopCheck(FALSE, FALSE, FALSE, FALSE, NoException, 0)

\* RiskManager.should_stop_trading_on_large_position_change.  current_position
\* is what get_spot_risk() returns if the history has to be created, mid what
\* get_market_mid() returns (an Optional): the product with an absent mid is a
\* TypeError that escapes the call.
should_stop_trading_on_large_position_change(current_position, mid) ==
    LET data == PositionHistoryFor(position_history, current_position)
        change == get_position_change_over_time(data, large_fill_lookback_period)
        usd == change * Val(mid)
        large == Abs(usd) > Abs(large_fill_threshold_usd)
        in_cooldown == now - large_fill_cooldown_start_time < large_fill_cooldown_time
        had_issue == large_position_change \in issues
    IN  /\ position_history' = Some(data)
        /\ ObsReset("should_stop_trading_on_large_position_change")
        /\ UNCHANGED <<traderVars, envVars, throttleVars, extraVars, reduce_only, config_reduce_only,
                       max_loss, pnl_so_far, riskCheck, sides, poll, twapVars, vwapVars,
                       quoteVars>>
        /\ IF IsNone(mid)
           THEN /\ stopCheck' = StopCheck(FALSE, FALSE, had_issue, FALSE, "TypeError", now)
                /\ UNCHANGED <<issues, large_fill_cooldown_start_time, alertVars>>
           ELSE IF large
           THEN /\ stopCheck' = StopCheck(TRUE, in_cooldown, had_issue, TRUE, NoException, now)
                /\ IF ~had_issue
                   THEN /\ issues' = issues \cup {large_position_change}
                        /\ large_fill_cooldown_start_time' = now
                        /\ AlertRaised("Trading disabled due to large position change",
                                       large_fill_cooldown_time)
                   ELSE UNCHANGED <<issues, large_fill_cooldown_start_time, alertVars>>
           ELSE IF had_issue
           THEN IF ~in_cooldown
                THEN /\ stopCheck' = StopCheck(FALSE, FALSE, TRUE, FALSE, NoException, now)
                     /\ issues' = issues \ {large_position_change}
                     /\ AlertRaised("Trading re-enabled after large position change cool down",
                                    1)
                     /\ UNCHANGED large_fill_cooldown_start_time
                ELSE /\ stopCheck' = StopCheck(FALSE, TRUE, TRUE, TRUE, NoException, now)
                     /\ UNCHANGED <<issues, large_fill_cooldown_start_time, alertVars>>
           ELSE /\ stopCheck' = StopCheck(FALSE, in_cooldown, FALSE, FALSE, NoException, now)
                /\ UNCHANGED <<issues, large_fill_cooldown_start_time, alertVars>>

InitPosition ==
    /\ large_fill_cooldown_start_time = 0
    /\ position_history = None
    /\ stopCheck = NoStopCheck
    /\ poll = NoPoll

\* -------------------------------------------------------------------- TWAP
TwapConfig(direction, total_size, step_size, price_threshold) ==
    [direction |-> direction, total_size |-> total_size, step_size |-> step_size,
     price_threshold |-> price_threshold]

TwapStep(mid, again, skipped, size, notified, exc) ==
    [mid |-> mid, again |-> again, skipped |-> skipped, size |-> size,
     notified |-> notified, exc |-> exc]
NoTwapStep == TwapStep(None, None, FALSE, 0, FALSE, NoException)

\* lines 54-59: the interval adds nothing
TwapSkips_OnlyWithoutMid(mid) == IsNone(mid)
TwapSkips(mid) ==
    \/ IsNone(mid)
    \/ twap_config.direction = "buy" /\ Val(mid) > twap_config.price_threshold
    \/ twap_config.direction = "sell" /\ Val(mid) < twap_config.price_threshold

\* line 61
TwapSize_WholeStep == twap_config.step_size
\* a remainder smaller than one step is never injected
TwapSize_OnlyWholeSteps ==
    IF twap_total_size < twap_config.step_size THEN 0 ELSE twap_config.step_size
TwapSize == Min2(twap_total_size, twap_config.step_size)

\* RiskManager.on_base_currency_spot_position_update with a market maker
\* assigned: the 5 USD test on |position_change| * mid, mid in 1/1000 USD
NotifiesMarketMaker_Always(position_change, mid) == TRUE
NotifiesMarketMaker(position_change, mid) == Abs(position_change) * mid > 5000

\* one turn of the loop of TWAP.on_order_book_tick.  mid is get_market_mid()
\* at line 53, again is get_market_mid() inside update_twap_delta's call of
\* on_base_currency_spot_position_update; an absent mid there is a TypeError
\* that ends the thread, after the size was taken and the delta was added.
twap_interval(mid, again) ==
    /\ twap_thread = "running"
    /\ ObsReset("TWAP.on_order_book_tick")
    /\ UNCHANGED <<traderVars, envVars, throttleVars, extraVars, riskVars, sides, alertVars,
                   positionVars, twap_config, vwapVars, quoteVars>>
    /\ IF TwapSkips(mid)
       THEN /\ twapStep' = TwapStep(mid, None, TRUE, 0, FALSE, NoException)
            /\ UNCHANGED <<twap_total_size, twap_delta, twap_thread>>
       ELSE /\ twap_total_size' = twap_total_size - TwapSize
            /\ twap_delta' = IF twap_config.direction = "buy"
                             THEN twap_delta - TwapSize
                             ELSE twap_delta + TwapSize
            /\ IF IsNone(again)
               THEN /\ twapStep' = TwapStep(mid, again, FALSE, TwapSize, FALSE, "TypeError")
                    /\ twap_thread' = "dead"
               ELSE /\ twapStep' = TwapStep(mid, again, FALSE, TwapSize,
                                            NotifiesMarketMaker(TwapSize, Val(again)),
                                            NoException)
                    /\ UNCHANGED twap_thread

\* TWAP after __init__ and startup(), RiskManager._twap_delta after startup()
InitTwap(directions, totalSizes, stepSizes, priceThresholds) ==
    /\ twap_config \in { TwapConfig(d, t, st, th) :
                           d \in directions, t \in totalSizes, st \in stepSizes,
                           th \in priceThresholds }
    /\ twap_total_size = twap_config.total_size
    /\ twap_delta = 0
    /\ twap_thread = IF twap_config.direction \notin {"buy", "sell"}
                        \/ twap_config.total_size = 0
                     THEN "not_started" ELSE "running"
    /\ twapStep = NoTwapStep

\* -------------------------------------------------------------- SimpleVWAP
\* SimpleVWAP(period=...): the trailing window, in seconds
period == 2
MillisPerSecond == 1000

\* a trade as the feed delivers it; timestamp in milliseconds
Trade(price, amount, timestamp) ==
    [price |-> price, amount |-> amount, timestamp |-> timestamp]

\* get_time_nanos() - period_ns, against which _prune_old_trades compares
\* timestamp * 1_000_000: both sides are kept in milliseconds here
CutoffTime(t) == t * MillisPerSecond - period * MillisPerSecond

VwapState(ts, pv, volume) == [trades |-> ts, total_pv |-> pv, total_volume |-> volume]

\* pruning that drops old trades without taking them out of the totals
RECURSIVE prune_old_trades_KeepsTotals(_, _)
prune_old_trades_KeepsTotals(st, cutoff) ==
    IF st.trades # <<>> /\ Head(st.trades).timestamp < cutoff
    THEN prune_old_trades_KeepsTotals(
             VwapState(Tail(st.trades), st.total_pv, st.total_volume), cutoff)
    ELSE st
\* SimpleVWAP._prune_old_trades
RECURSIVE prune_old_trades(_, _)
prune_old_trades(st, cutoff) ==
    IF st.trades # <<>> /\ Head(st.trades).timestamp < cutoff
    THEN LET old_trade == Head(st.trades)
         IN  prune_old_trades(
                 VwapState(Tail(st.trades),
                           st.total_pv - old_trade.price * old_trade.amount,
                           st.total_volume - old_trade.amount), cutoff)
    ELSE st

VwapCall(op, trade, result, exc) ==
    [op |-> op, trade |-> trade, result |-> result, exc |-> exc, time |-> now]
NoTrade == Trade(0, 0, 0)
NoVwapCall == [op |-> "none", trade |-> NoTrade, result |-> None, exc |-> NoException,
               time |-> 0]

\* the quotient total_pv / total_volume, in 1/1000 of a price unit
Quotient(pv, volume) == (pv * 1000) \div volume

\* SimpleVWAP.add_trade: what it does to the SimpleVWAP
SimpleVWAP_add_trade(trade) ==
    LET st == prune_old_trades(
                  VwapState(Append(trades, trade),
                            total_pv + trade.price * trade.amount,
                            total_volume + trade.amount), CutoffTime(now))
    IN  /\ trades' = st.trades
        /\ total_pv' = st.total_pv
        /\ total_volume' = st.total_volume
        /\ vwapCall' = VwapCall("add_trade", trade, None, NoException)
        /\ addedTrades' = Append(addedTrades, trade)

\* one call of SimpleVWAP.add_trade
add_trade(trade) ==
    /\ SimpleVWAP_add_trade(trade)
    /\ ObsReset("SimpleVWAP.add_trade")
    /\ UNCHANGED <<traderVars, envVars, throttleVars, extraVars, riskVars, sides, alertVars,
                   positionVars, twapVars, quoteVars>>

\* SimpleVWAP.get_vwap: None while the total volume is 0, otherwise prune and
\* divide; the division by a total volume that pruning took to 0 raises
SimpleVWAP_get_vwap ==
    LET st == IF total_volume = 0
              THEN VwapState(trades, total_pv, total_volume)
              ELSE prune_old_trades(VwapState(trades, total_pv, total_volume),
                                    CutoffTime(now))
    IN  /\ trades' = st.trades
        /\ total_pv' = st.total_pv
        /\ total_volume' = st.total_volume
        /\ vwapCall' = IF total_volume = 0
                       THEN VwapCall("get_vwap", NoTrade, None, NoException)
                       ELSE IF st.total_volume = 0
                       THEN VwapCall("get_vwap", NoTrade, None, "ZeroDivisionError")
                       ELSE VwapCall("get_vwap", NoTrade,
                                     Some(Quotient(st.total_pv, st.total_volume)),
                                     NoException)
        /\ UNCHANGED addedTrades

\* one call of SimpleVWAP.get_vwap
get_vwap ==
    /\ SimpleVWAP_get_vwap
    /\ ObsReset("SimpleVWAP.get_vwap")
    /\ UNCHANGED <<traderVars, envVars, throttleVars, extraVars, riskVars, sides, alertVars,
                   positionVars, twapVars, quoteVars>>

\* SimpleVWAP after __init__
InitVwap ==
    /\ trades = <<>>
    /\ total_pv = 0
    /\ total_volume = 0
    /\ vwapCall = NoVwapCall
    /\ addedTrades = <<>>

\* ------------------------------- LinearFader and QuoteAdjuster called directly
NoFaderCall == [called |-> FALSE, kpis |-> <<>>, enabled |-> FALSE, delta |-> 0,
                mid |-> None, exc |-> NoException, quotes |-> <<>>]

\* one call of LinearFader.on_order_book_tick with what it reads
fader_call(kpis, enabled, delta, mid) ==
    LET r == LinearFader_on_order_book_tick(kpis, enabled, delta, mid)
    IN  /\ faderCall' = [called |-> TRUE, kpis |-> kpis, enabled |-> enabled,
                         delta |-> delta, mid |-> mid, exc |-> r.exc, quotes |-> r.quotes]
        /\ ObsReset("LinearFader.on_order_book_tick")
        /\ UNCHANGED <<traderVars, envVars, throttleVars, extraVars, riskVars, sides, alertVars,
                       positionVars, twapVars, vwapVars, maker_fee, adjusterCall>>

NoAdjusterCall == [called |-> FALSE, quotes |-> <<>>,
                   m |-> [best_bid |-> None, best_ask |-> None], widen |-> FALSE,
                   market_vwap |-> None, vwap_buy |-> None, vwap_sell |-> None,
                   exc |-> NoException, adjusted |-> <<>>]

\* one call of QuoteAdjuster.on_order_book_tick with what it reads
adjuster_call(quotes, m, widen, market_vwap, vwap_buy, vwap_sell) ==
    LET r == QuoteAdjuster_on_order_book_tick(quotes, m, widen, market_vwap, vwap_buy,
                                              vwap_sell)
    IN  /\ adjusterCall' = [called |-> TRUE, quotes |-> quotes, m |-> m, widen |-> widen,
                            market_vwap |-> market_vwap, vwap_buy |-> vwap_buy,
                            vwap_sell |-> vwap_sell, exc |-> r.exc, adjusted |-> r.quotes]
        /\ ObsReset("QuoteAdjuster.on_order_book_tick")
        /\ UNCHANGED <<traderVars, envVars, throttleVars, extraVars, riskVars, sides, alertVars,
                       positionVars, twapVars, vwapVars, maker_fee, faderCall>>

InitQuotes(fees) ==
    /\ maker_fee \in fees
    /\ faderCall = NoFaderCall
    /\ adjusterCall = NoAdjusterCall

\* -------------------------------------------------------------- BucketedVWAP
\* BucketedVWAP(time_resolution_ms=...): the width of a bucket, in seconds here
time_resolution == 1

\* a bucket [start time, sum of price * amount, sum of amount]
Bucket(time, pv, volume) == [time |-> time, pv |-> pv, volume |-> volume]

\* the fields of a BucketedVWAP.  phase is the position of run(): not called
\* yet, in the loop of the initial period, or in the bucket-management loop;
\* ignored counts the add_trade calls that returned at line 76.
BucketedState(buckets, current_bucket, start_time, pv, volume, phase, ignored) ==
    [buckets |-> buckets, current_bucket |-> current_bucket, start_time |-> start_time,
     total_pv |-> pv, total_volume |-> volume, phase |-> phase, ignored |-> ignored]

\* BucketedVWAP.add_trade: the trade's own timestamp is not read
BucketedVWAP_add_trade(b, trade) ==
    IF IsNone(b.current_bucket)
    THEN [b EXCEPT !.ignored = @ + 1]
    ELSE LET c == Val(b.current_bucket)
         IN  [b EXCEPT !.current_bucket =
                           Some(Bucket(c.time, c.pv + trade.price * trade.amount,
                                       c.volume + trade.amount)),
                       !.total_pv = @ + trade.price * trade.amount,
                       !.total_volume = @ + trade.amount]

\* BucketedVWAP.get_vwap
BucketedVWAP_get_vwap(b) ==
    IF b.total_volume = 0 THEN None ELSE Some(Quotient(b.total_pv, b.total_volume))

\* run(), lines 104-107: buckets older than the window leave the totals
RECURSIVE retire_old_buckets(_, _)
retire_old_buckets(b, current_time) ==
    IF b.buckets # <<>> /\ Head(b.buckets).time < current_time - period
    THEN LET old_bucket == Head(b.buckets)
         IN  retire_old_buckets(
                 [b EXCEPT !.buckets = Tail(@),
                           !.total_pv = @ - old_bucket.pv,
                           !.total_volume = @ - old_bucket.volume], current_time)
    ELSE b

\* run() up to its first sleep
BucketedVWAP_run_start(b, t) ==
    [b EXCEPT !.start_time = Some(t), !.current_bucket = Some(Bucket(t, 0, 0)),
              !.phase = "initial"]

\* one turn of either loop of run(), at the time read after the sleep.  The
\* initial loop replaces the current bucket without appending the old one; its
\* last turn only leaves the loop.
BucketedVWAP_run_turn(b, current_time) ==
    IF b.phase = "initial"
    THEN IF current_time - Val(b.start_time) >= period
         THEN [b EXCEPT !.phase = "steady"]
         ELSE [b EXCEPT !.current_bucket = Some(Bucket(current_time, 0, 0))]
    ELSE retire_old_buckets(
             [b EXCEPT !.buckets = Append(@, Val(b.current_bucket)),
                       !.current_bucket = Some(Bucket(current_time, 0, 0))],
             current_time)

BucketCall(op, result) == [op |-> op, result |-> result]
NoBucketCall == BucketCall("none", None)

\* the sleep of run() is bounded in the model
MaxBucketElapsed == 4

\* run() is started
bucketed_run ==
    /\ bucketed.phase = "not_running"
    /\ bucketed' = BucketedVWAP_run_start(bucketed, now)
    /\ bucketCall' = BucketCall("run", None)
    /\ ObsReset("BucketedVWAP.run")
    /\ UNCHANGED <<traderVars, envVars, throttleVars, riskVars, sides, alertVars,
                   positionVars, twapVars, vwapVars, quoteVars, marketDataVars, limitCheck>>

\* run() sleeps for time_resolution and takes one turn of its loop
bucketed_turn ==
    /\ bucketed.phase # "not_running"
    /\ now < StartTime + MaxBucketElapsed
    /\ now' = now + time_resolution
    /\ bucketed' = BucketedVWAP_run_turn(bucketed, now + time_resolution)
    /\ bucketCall' = BucketCall("turn", None)
    /\ ObsReset("BucketedVWAP.run")
    /\ UNCHANGED <<traderVars, md, throttleVars, riskVars, sides, alertVars,
                   positionVars, twapVars, vwapVars, quoteVars, marketDataVars, limitCheck>>

\* the same trade given to the SimpleVWAP and to the BucketedVWAP
vwap_add_trade(trade) ==
    /\ SimpleVWAP_add_trade(trade)
    /\ bucketed' = BucketedVWAP_add_trade(bucketed, trade)
    /\ bucketCall' = BucketCall("add_trade", None)
    /\ ObsReset("VWAP.add_trade")
    /\ UNCHANGED <<traderVars, envVars, throttleVars, riskVars, sides, alertVars,
                   positionVars, twapVars, quoteVars, marketDataVars, limitCheck>>

\* get_vwap asked of both
vwap_get_vwap ==
    /\ SimpleVWAP_get_vwap
    /\ bucketCall' = BucketCall("get_vwap", BucketedVWAP_get_vwap(bucketed))
    /\ UNCHANGED bucketed
    /\ ObsReset("VWAP.get_vwap")
    /\ UNCHANGED <<traderVars, envVars, throttleVars, riskVars, sides, alertVars,
                   positionVars, twapVars, quoteVars, marketDataVars, limitCheck>>

\* BucketedVWAP after __init__
InitBucketed ==
    /\ bucketed = BucketedState(<<>>, None, None, 0, 0, "not_running", 0)
    /\ bucketCall = NoBucketCall

\* ------------------------------------------------ MarketData called directly
\* market_data_stale_time_threshold, set to 60 s by startup(); in seconds here
market_data_stale_time_threshold == 2

\* a raw order book: bids and asks best first, 'timestamp' in ms or absent
RawOrderBook(bids, asks, timestamp) ==
    [bids |-> bids, asks |-> asks, timestamp |-> timestamp]

\* the fields of a MarketData; the last update time is kept in ms
MarketDataState(last, best_bid, best_ask) ==
    [last_md_update_timestamp |-> last, best_bid |-> best_bid, best_ask |-> best_ask]

\* on_order_book_tick taking the time of every tick from the wall clock
LastUpdateTimestamp_WallClock(raw, t) == t * MillisPerSecond

\* lines 73-76: the book's timestamp if it is truthy, the wall clock otherwise
LastUpdateTimestamp(raw, t) ==
    IF ~IsNone(raw.timestamp) /\ Val(raw.timestamp) # 0
    THEN Val(raw.timestamp)
    ELSE t * MillisPerSecond

\* MarketData.on_order_book_tick at wall-clock time t
MarketData_tick(raw, t) ==
    LET best == MarketData_on_order_book_tick(Book(raw.bids, raw.asks))
    IN  MarketDataState(LastUpdateTimestamp(raw, t), best.best_bid, best.best_ask)

\* the staleness test passing at exactly the threshold
is_market_data_stale_Strict(m, t) ==
    \/ m.last_md_update_timestamp = 0
    \/ t * MillisPerSecond - m.last_md_update_timestamp
           > market_data_stale_time_threshold * MillisPerSecond

\* MarketData.is_market_data_stale at wall-clock time t
is_market_data_stale(m, t) ==
    \/ m.last_md_update_timestamp = 0
    \/ t * MillisPerSecond - m.last_md_update_timestamp
           >= market_data_stale_time_threshold * MillisPerSecond

\* the record of a direct call: tick is the latest tick so far (the book and
\* the wall-clock time it arrived at), absent before the first
MdCall(op, tick, stale, mid) == [op |-> op, tick |-> tick, stale |-> stale, mid |-> mid]
NoMdCall == MdCall("none", None, FALSE, None)

md_tick(raw) ==
    /\ market_data' = MarketData_tick(raw, now)
    /\ mdCall' = MdCall("on_order_book_tick", Some([raw |-> raw, time |-> now]), FALSE, None)
    /\ ObsReset("MarketData.on_order_book_tick")
    /\ UNCHANGED <<traderVars, envVars, throttleVars, riskVars, sides, alertVars,
                   positionVars, twapVars, vwapVars, quoteVars, bucketVars, limitCheck>>

stale_query ==
    /\ mdCall' = MdCall("is_market_data_stale", mdCall.tick,
                        is_market_data_stale(market_data, now), None)
    /\ ObsReset("MarketData.is_market_data_stale")
    /\ UNCHANGED <<traderVars, envVars, throttleVars, riskVars, sides, alertVars,
                   positionVars, twapVars, vwapVars, quoteVars, bucketVars, limitCheck,
                   market_data>>

mid_query ==
    /\ mdCall' = MdCall("get_mid_price", mdCall.tick, FALSE, get_mid_price(market_data))
    /\ ObsReset("MarketData.get_mid_price")
    /\ UNCHANGED <<traderVars, envVars, throttleVars, riskVars, sides, alertVars,
                   positionVars, twapVars, vwapVars, quoteVars, bucketVars, limitCheck,
                   market_data>>

\* MarketData after __init__
InitMarketData ==
    /\ market_data = MarketDataState(0, None, None)
    /\ mdCall = NoMdCall

\* --------------------------------------- Risk.is_within_risk_limits, directly
\* RiskLimit.__init__ with every bound given
RiskLimitWith(min_delta, max_delta, min_gamma, max_gamma, min_theta, max_theta, min_vega, max_vega, min_rho, max_rho) ==
    [min_delta |-> min_delta, max_delta |-> max_delta,
     min_gamma |-> min_gamma, max_gamma |-> max_gamma,
     min_theta |-> min_theta, max_theta |-> max_theta,
     min_vega |-> min_vega, max_vega |-> max_vega,
     min_rho |-> min_rho, max_rho |-> max_rho]

\* RiskLimit(): every default of __init__, the min_* among them, is np.inf
DefaultRiskLimit ==
    RiskLimitWith(Infinity, Infinity, Infinity, Infinity, Infinity, Infinity,
                  Infinity, Infinity, Infinity, Infinity)

NoLimitCheck == [called |-> FALSE, risk |-> Risk(0, 0, 0, 0, 0),
                 limit |-> DefaultRiskLimit, within |-> FALSE]

\* one call r.is_within_risk_limits(L)
limit_check(r, L) ==
    /\ limitCheck' = [called |-> TRUE, risk |-> r, limit |-> L,
                      within |-> is_within_risk_limits(r, L)]
    /\ ObsReset("Risk.is_within_risk_limits")
    /\ UNCHANGED <<traderVars, envVars, throttleVars, riskVars, sides, alertVars,
                   positionVars, twapVars, vwapVars, quoteVars, bucketVars, marketDataVars>>

InitLimitCheck == limitCheck = NoLimitCheck

\* the three above before any call
InitExtra == InitBucketed /\ InitMarketData /\ InitLimitCheck

\* time.time() moves on while the components run
MaxElapsed == 3

TimePasses ==
    /\ now < StartTime + MaxElapsed
    /\ now' = now + 1
    /\ ObsReset("time_passes")
    /\ UNCHANGED <<traderVars, md, componentVars>>

\* ------------------------------------------ OrderThrottle called directly
NoThrottleInput == [account |-> "", raw_quotes |-> <<>>, orders |-> <<>>, time |-> 0]
NoThrottleOutput == [quotes |-> <<>>, cancel |-> {}]

InitThrottle ==
    /\ throttleInput = NoThrottleInput
    /\ throttleOutput = NoThrottleOutput

\* one call of OrderThrottle.on_order_book_tick at the current time
throttle_call(raw_quotes, account, orders) ==
    LET r == OrderThrottle_on_order_book_tick(raw_quotes, account, orders, now,
                                              last_time_we_sent_quotes)
    IN  /\ throttleInput' = [account |-> account, raw_quotes |-> raw_quotes,
                             orders |-> orders, time |-> now]
        /\ throttleOutput' = [quotes |-> r.quotes, cancel |-> r.cancel]
        /\ last_time_we_sent_quotes' = r.last
        /\ lastOp' = "OrderThrottle.on_order_book_tick"
        /\ lastInput' = NoInput
        /\ validateResult' = "not_called"
        /\ raised' = NoException
        /\ calls' = <<>>
        /\ requests' = <<>>
        /\ UNCHANGED <<cfgVars, envVars, metricVars, stagedVars, latchVars, riskVars,
                       moreVars>>

\* ------------------------------------------------------------ specifications
InitWith(sendOrders, quotingClasses) ==
    /\ send_orders \in sendOrders
    /\ quoting_class \in quotingClasses
    /\ md = [c \in InstrumentClass |-> [best_bid |-> None, best_ask |-> None]]
    /\ now = StartTime
    /\ last_time_we_sent_quotes = [a \in {} |-> 0]
    /\ current_funding_rate = None
    /\ current_basis = None
    /\ current_margin_usage = None
    /\ current_perp_mid_price = None
    /\ current_spot_mid_price = None
    /\ trading_direction = None
    /\ account_ids_to_intended_quotes = [a \in {} |-> <<>>]
    /\ account_ids_to_oids_to_be_cancelled = EmptyDict
    /\ is_pending_cancel_all = FALSE
    /\ is_pending_hedge = FALSE
    /\ lastOp = "init"
    /\ lastInput = NoInput
    /\ validateResult = "not_called"
    /\ raised = NoException
    /\ calls = <<>>
    /\ requests = <<>>

\* A tick reads the lookups only on a reference market tick, and the registry,
\* the trackers, the switch and the RiskManager only when conditions are met.
Calm == Reads(<<>>, FALSE, TRUE, 0, Some(100000))
TickFundingLookups(market, lookups) ==
    IF market = reference_class THEN lookups ELSE {Lookup(FALSE, None)}
TickMarginLookups(market, fr, lookups) ==
    IF market = reference_class /\ ~fr.raises THEN lookups ELSE {Lookup(FALSE, None)}
TickReads(market, book, fr, mu, reads) ==
    IF /\ market = reference_class
       /\ validate_trading_conditions(
             [md EXCEPT ![market] = MarketData_on_order_book_tick(book)], fr, mu).result
              = "true"
    THEN reads
    ELSE {Calm}

\* Spec: the orchestrator with either leg quoted against the other, a feed
\* that delivers either a book with basis 0.004 or a one-sided perp book, and
\* funding / margin lookups that raise, meet the thresholds or miss them.
SpecBooks(market) ==
    IF market = PERP
    THEN { Book(<<100300>>, <<100500>>), Book(<<100300>>, <<>>) }
    ELSE { Book(<<99900>>, <<100100>>) }
SpecFundingLookups == { Lookup(TRUE, None), Lookup(FALSE, Some(6)) }
SpecMarginLookups == { Lookup(TRUE, None), Lookup(FALSE, Some(3)), Lookup(FALSE, Some(5)) }
SpecReads ==
    { Calm,
      Reads(<<>>, FALSE, FALSE, 0, Some(100000)),
      Reads(<<>>, FALSE, TRUE, 0, None),
      Reads(<< Order(7, BUY, 98600, 100000, 14), Order(8, SELL, 101400, 100000, 14) >>,
            FALSE, TRUE, 0, Some(100000)),
      Reads(<< Order(7, BUY, 99000, 100000, 14), Order(8, SELL, 101000, 100000, 14) >>,
            FALSE, TRUE, 0, Some(100000)),
      Reads(<< Order(7, BUY, 98600, 99000, 14), Order(8, SELL, 101400, 99000, 14) >>,
            TRUE, TRUE, -2, Some(100000)) }

Tick ==
    \E market \in InstrumentClass : \E book \in SpecBooks(market) :
      \E fr \in TickFundingLookups(market, SpecFundingLookups) :
        \E mu \in TickMarginLookups(market, fr, SpecMarginLookups) :
          \E env \in TickReads(market, book, fr, mu, SpecReads) :
            on_order_book_tick(market, book, fr, mu, env)

NetPositionChange ==
    \E new_position \in Positions : \E last_position \in Positions :
        on_net_position_change(new_position, last_position)

UpdateQuotes ==
    \E delta_risk \in (IF ~is_pending_cancel_all /\ is_pending_hedge THEN Positions ELSE {0}) :
        update_quotes(delta_risk)

Next ==
    \/ Tick
    \/ NetPositionChange
    \/ UpdateQuotes
    \/ ClockAdvances

\* the components at rest, for the specifications that do not drive them
MoreIdle ==
    /\ InitExtra
    /\ InitAlerts
    /\ InitPosition
    /\ InitTwap({"buy"}, {0}, {2}, {110000})
    /\ InitVwap
    /\ InitQuotes({0})

ComponentsIdle == InitThrottle /\ InitRisk({FALSE}, {5}) /\ MoreIdle

Init == InitWith(BOOLEAN, InstrumentClass) /\ ComponentsIdle

Spec == Init /\ [][Next]_vars

\* SpecConditions: ticks only, over every book and every lookup outcome, so
\* that each way of meeting and of missing the trading conditions occurs.
TickConditions ==
    \E market \in InstrumentClass : \E book \in Books(market) :
      \E fr \in TickFundingLookups(market, FundingLookups) :
        \E mu \in TickMarginLookups(market, fr, MarginLookups) :
          \E env \in TickReads(market, book, fr, mu, {Calm}) :
            on_order_book_tick(market, book, fr, mu, env)

NextConditions == TickConditions

InitConditions == InitWith({TRUE}, InstrumentClass) /\ ComponentsIdle

SpecConditions == InitConditions /\ [][NextConditions]_vars

\* SpecThrottle: OrderThrottle.on_order_book_tick called for two accounts with
\* every combination of intended quotes and live orders below, while time passes.
ThrottleAccounts == {quoting_account, reference_account}
BidQuote == Quote(BUY, 99000, 2, 100000, 10)
AskQuote == Quote(SELL, 101000, 2, 100000, 10)
RawQuoteLists == { <<>>, <<BidQuote>>, <<BidQuote, AskQuote>> }
LiveOrderLists ==
    { <<>>,
      << Order(7, BUY, 99000, 100000, 10) >>,          \* identical to BidQuote
      << Order(7, BUY, 99100, 100000, 10) >>,          \* live bid more aggressive
      << Order(7, BUY, 98900, 100000, 10) >>,          \* live bid more conservative
      << Order(7, BUY, 99000, 99000, 10) >>,           \* mid moved by 1%
      << Order(7, BUY, 99000, 99900, 10) >>,           \* mid moved by exactly price_throttle
      << Order(7, BUY, 99100, 100000, 10), Order(8, SELL, 101000, 100000, 20) >>,
      << Order(7, BUY, 99000, 100000, 10), Order(9, BUY, 99100, 100000, 10) >> }

ThrottleTick ==
    \E account \in ThrottleAccounts : \E raw_quotes \in RawQuoteLists :
      \E orders \in LiveOrderLists :
        throttle_call(raw_quotes, account, orders)

NextThrottle ==
    \/ ThrottleTick
    \/ ClockAdvances

InitThrottleCalls == InitWith({TRUE}, {PERP}) /\ ComponentsIdle

SpecThrottle == InitThrottleCalls /\ [][NextThrottle]_vars

\* SpecRisk: RiskManager._run_risk_checks called with every total delta around
\* the limits, with the position steady or moving during the check, for either
\* value of the reduce_only flag and a max_loss that the PnL does or does not breach.
Deltas == {-11, -10, -9, -8, 0, 8, 9, 10, 11}
Gammas == {0, 6}
MaxLossConfigs == {5, -1}
RiskChecks ==
    \E delta \in Deltas : \E again \in {delta, delta + 1} : \E gamma \in Gammas :
        run_risk_checks(RiskReads(delta, again, Risk(again, gamma, 0, 0, 0)))

\* is_sending_bids() and is_sending_asks() asked with the delta on either side
\* of 0, steady or moving between the two calls
SideDeltas == {-8, 0, 8}
SendingSides ==
    \E delta_bids \in SideDeltas : \E delta_asks \in SideDeltas :
        sending_sides(delta_bids, delta_asks)

NextRisk ==
    \/ RiskChecks
    \/ SendingSides

InitRiskChecks ==
    InitWith({TRUE}, {PERP}) /\ InitThrottle /\ InitRisk(BOOLEAN, MaxLossConfigs) /\ MoreIdle

SpecRisk == InitRiskChecks /\ [][NextRisk]_vars

\* SpecAlerts: RiskManager.raise_alert called for two keys with every frequency
\* limit below, while time passes.
AlertKeys == {"pnl", "risk-near-limit"}
FrequencyLimits == {0, 1, 2}
AlertCalls ==
    \E key \in AlertKeys : \E frequency_limit \in FrequencyLimits :
        alert_call(key, frequency_limit)

NextAlerts ==
    \/ AlertCalls
    \/ TimePasses

InitAlertCalls == InitWith({TRUE}, {PERP}) /\ ComponentsIdle

SpecAlerts == InitAlertCalls /\ [][NextAlerts]_vars

\* SpecLargeFill: the position-history collector polls the net position, the
\* large-position-change test is called with the mid present or absent, the
\* risk checks run beside it, and time passes.
StopMids == {None, Some(100000)}
PositionPolls == \E data_point \in Positions : position_polled(data_point)
StopChecks ==
    \E current_position \in Positions : \E mid \in StopMids :
        should_stop_trading_on_large_position_change(current_position, mid)
LargeFillRiskChecks ==
    \E delta \in {0, 11} : run_risk_checks(RiskReads(delta, delta, Risk(delta, 0, 0, 0, 0)))

NextLargeFill ==
    \/ PositionPolls
    \/ StopChecks
    \/ LargeFillRiskChecks
    \/ TimePasses

InitLargeFill == InitWith({TRUE}, {PERP}) /\ ComponentsIdle

SpecLargeFill == InitLargeFill /\ [][NextLargeFill]_vars

\* SpecTwap: the TWAP thread's intervals for either direction, totals that are
\* and are not a multiple of the step, and a mid that is absent, below, at or
\* above the price threshold.
TwapDirections == {"buy", "sell"}
TwapTotalSizes == {0, 3, 4}
TwapStepSizes == {1, 2}
TwapPriceThresholds == {110000}
TwapMids == {None, Some(100000), Some(110000), Some(120000)}
TwapIntervals ==
    \E mid \in TwapMids : \E again \in {None, mid} : twap_interval(mid, again)

NextTwap == TwapIntervals

InitTwapRuns ==
    /\ InitWith({TRUE}, {PERP})
    /\ InitExtra
    /\ InitThrottle
    /\ InitRisk({FALSE}, {5})
    /\ InitAlerts
    /\ InitPosition
    /\ InitTwap(TwapDirections, TwapTotalSizes, TwapStepSizes, TwapPriceThresholds)
    /\ InitVwap
    /\ InitQuotes({0})

SpecTwap == InitTwapRuns /\ [][NextTwap]_vars

\* SpecTwapLive: the same runs with the TWAP thread scheduled for as long as it
\* is alive: its loop (twap.py:52-70) only sleeps twap_frequency between turns.
InitTwapLive == InitTwapRuns
SpecTwapLive == InitTwapLive /\ [][NextTwap]_vars /\ WF_vars(TwapIntervals)

\* SpecVwap: trades stamped now or a second ago are added to a SimpleVWAP and
\* the VWAP is asked for, while time passes and trades leave the window.
MaxTrades == 3
TradePrices == {100, 102}
TradeAmounts == {1, 2}
TradeAges == {0, 1}
AddTrades ==
    /\ Len(addedTrades) < MaxTrades
    /\ \E price \in TradePrices : \E amount \in TradeAmounts : \E age \in TradeAges :
         add_trade(Trade(price, amount, (now - age) * MillisPerSecond))
GetVwap == get_vwap

NextVwap ==
    \/ AddTrades
    \/ GetVwap
    \/ TimePasses

InitVwapCalls == InitWith({TRUE}, {PERP}) /\ ComponentsIdle

SpecVwap == InitVwapCalls /\ [][NextVwap]_vars

\* SpecFader: LinearFader called directly with every combination of ladder,
\* trading switch, total delta and mid below.
FaderLadders ==
    { <<>>, quoting_kpis,
      << [depth |-> 10, size |-> 200], [depth |-> 20, size |-> 300] >> }
FaderDeltas == {-20, -10, -2, 0, 2, 10, 20}
FaderMids == {None, Some(50000), Some(100000)}
FaderCalls ==
    \E kpis \in FaderLadders : \E enabled \in BOOLEAN : \E delta \in FaderDeltas :
      \E mid \in FaderMids :
        fader_call(kpis, enabled, delta, mid)

NextFader == FaderCalls

InitFaderCalls == InitWith({TRUE}, {PERP}) /\ ComponentsIdle

SpecFader == InitFaderCalls /\ [][NextFader]_vars

\* SpecAdjuster: QuoteAdjuster called directly with quotes inside, at and
\* outside the best bid / ask, with and without each VWAP and widening, for a
\* rebate, no fee and a fee of 0.1%.
AdjusterQuoteLists ==
    { << Quote(BUY, 100400, 2, 100400, 10), Quote(SELL, 100400, 2, 100400, 10) >>,
      << Quote(BUY, 99000, 2, 100400, 10), Quote(SELL, 101800, 2, 100400, 10) >>,
      << Quote(SELL, 100450, 2, 100400, 10), Quote(BUY, 100350, 2, 100400, 10) >> }
AdjusterBooks ==
    { [best_bid |-> Some(100350), best_ask |-> Some(100450)],
      [best_bid |-> Some(100000), best_ask |-> Some(101000)],
      [best_bid |-> None, best_ask |-> Some(100450)] }
AdjusterCalls ==
    \E quotes \in AdjusterQuoteLists : \E m \in AdjusterBooks : \E widen \in BOOLEAN :
      \E market_vwap \in {None, Some(100000)} : \E vwap_buy \in {None, Some(101500)} :
        \E vwap_sell \in {None, Some(99500)} :
          adjuster_call(quotes, m, widen, market_vwap, vwap_buy, vwap_sell)

NextAdjuster == AdjusterCalls

MakerFees == {-1, 0, 1}

InitAdjusterCalls ==
    /\ InitWith({TRUE}, {PERP})
    /\ InitExtra
    /\ InitThrottle
    /\ InitRisk({FALSE}, {5})
    /\ InitAlerts
    /\ InitPosition
    /\ InitTwap({"buy"}, {0}, {2}, {110000})
    /\ InitVwap
    /\ InitQuotes(MakerFees)

SpecAdjuster == InitAdjusterCalls /\ [][NextAdjuster]_vars

\* SpecBucketed: a SimpleVWAP and a BucketedVWAP are given the same trades,
\* stamped with the time they arrive at, and asked for the VWAP together, while
\* the run() loop of the BucketedVWAP turns once per time_resolution.
BucketedRuns == bucketed_run
BucketedTurns == bucketed_turn
VwapAddTrades ==
    /\ Len(addedTrades) < MaxTrades
    /\ \E price \in TradePrices :
         vwap_add_trade(Trade(price, 1, now * MillisPerSecond))
VwapGetVwaps == vwap_get_vwap

NextBucketed ==
    \/ BucketedRuns
    \/ BucketedTurns
    \/ VwapAddTrades
    \/ VwapGetVwaps

InitBucketedRuns == InitWith({TRUE}, {PERP}) /\ ComponentsIdle

SpecBucketed == InitBucketedRuns /\ [][NextBucketed]_vars

\* SpecMarketData: a MarketData is given two-sided, one-sided and empty books,
\* with a timestamp of their own (the arrival time, half a second or a second
\* before) or without, and asked for staleness and for the mid, while time passes.
TimedBooks(t) ==
    { RawOrderBook(bids, asks, timestamp) :
        bids \in {<<>>, <<100200>>}, asks \in {<<>>, <<100400>>},
        timestamp \in {None, Some(t * MillisPerSecond), Some(t * MillisPerSecond - 500),
                       Some(t * MillisPerSecond - MillisPerSecond)} }
MdTicks == \E raw \in TimedBooks(now) : md_tick(raw)
StaleQueries == stale_query
MidQueries == mid_query

NextMarketData ==
    \/ MdTicks
    \/ StaleQueries
    \/ MidQueries
    \/ TimePasses

InitMarketDataCalls == InitWith({TRUE}, {PERP}) /\ ComponentsIdle

SpecMarketData == InitMarketDataCalls /\ [][NextMarketData]_vars

\* SpecLimits: is_within_risk_limits asked of every risk vector with each Greek
\* below, at and above the bounds of two finite limits, and of the default limit.
TightLimit == RiskLimitWith(-1, 1, -1, 1, -1, 1, -1, 1, -1, 1)
UpperLimit == RiskLimitWith(0, 2, 0, 2, 0, 2, 0, 2, 0, 2)
RiskLimits == { TightLimit, UpperLimit, DefaultRiskLimit }
Greeks == {-1, 0, 2}
LimitChecks ==
    \E delta \in Greeks : \E gamma \in Greeks : \E theta \in Greeks :
      \E vega \in Greeks : \E rho \in Greeks : \E L \in RiskLimits :
        limit_check(Risk(delta, gamma, theta, vega, rho), L)

NextLimits == LimitChecks

InitLimitChecks == InitWith({TRUE}, {PERP}) /\ ComponentsIdle

SpecLimits == InitLimitChecks /\ [][NextLimits]_vars

\* ======================================================================
\* Claims
\* ======================================================================
IsUpdate == lastOp = "update_quotes"
IsTick == lastOp = "on_order_book_tick"
IsReferenceTick == IsTick /\ lastInput.market = reference_class
IsNetPositionChange == lastOp = "on_net_position_change"

StagedQuotes ==
    IF quoting_account \in DOMAIN account_ids_to_intended_quotes
    THEN account_ids_to_intended_quotes[quoting_account]
    ELSE <<>>

RequestKinds(reqs) == { reqs[i].request : i \in DOMAIN reqs }

\* The hedge order _hedge_risk is written to place for a delta
HedgeOrder(delta) ==
    NewOrderRequest(reference_account, reference_class, "Market",
                    IF delta < 0 THEN BUY ELSE SELL, 0, Abs(delta), FALSE)

\* C1: an update_quotes call made while PendingCancelAll or PendingHedge is
\* set issues no per-order cancellation; a set PendingCancelAll causes exactly
\* one cancel-all action in that call and is false afterwards; a set
\* PendingHedge that is serviced (PendingCancelAll clear) causes exactly one
\* hedge action that completes, and is false afterwards.
C1_LatchServicedOnceAndCleared ==
    [][ (IsUpdate' /\ (is_pending_cancel_all \/ is_pending_hedge)) =>
          /\ "cancel_order_request" \notin RequestKinds(requests')
          /\ is_pending_cancel_all =>
                /\ calls' = <<"_cancel_all_orders">>
                /\ ~is_pending_cancel_all'
          /\ (~is_pending_cancel_all /\ is_pending_hedge) =>
                /\ calls' = <<"_hedge_risk">>
                /\ raised' = NoException
                /\ ~is_pending_hedge' ]_vars

\* C2: when on_net_position_change has just set both latches (and orders are
\* sent), the very next update_quotes call issues the hedge order on the
\* reference market: quantity |delta|, BUY when delta < 0, SELL otherwise.
C2_NextUpdateIssuesHedge ==
    [][ ( /\ IsNetPositionChange
          /\ ~PositionChangeIsSmall(lastInput.new_position, lastInput.delta)
          /\ is_pending_cancel_all /\ is_pending_hedge
          /\ send_orders
          /\ IsUpdate' ) =>
          \E i \in DOMAIN requests' : requests'[i] = HedgeOrder(lastInput'.delta) ]_vars

\* C3: a reference-market tick on which _validate_trading_conditions returns
\* false leaves PendingCancelAll set and both staged maps as they were.
C3_NotMetSetsCancelAll ==
    [][ (IsTick' /\ validateResult' = "false") =>
          (is_pending_cancel_all' /\ UNCHANGED stagedVars) ]_vars

\* C4 as stated: on_net_position_change sets both latches exactly when
\* |new_position - delta| exceeds position_change_threshold, and leaves both
\* unchanged otherwise (equality included).
C4_SetsLatchesIffExceeds ==
    [][ IsNetPositionChange' =>
          IF Abs(lastInput'.new_position - lastInput'.delta) > position_change_threshold
          THEN is_pending_cancel_all' /\ is_pending_hedge'
          ELSE UNCHANGED latchVars ]_vars

\* C4 amended: on_net_position_change sets both latches exactly when
\* |new_position - delta| is at least position_change_threshold (equality
\* included), and leaves both unchanged when it is below the threshold.
C4_SetsLatchesIffAtLeast ==
    [][ IsNetPositionChange' =>
          IF Abs(lastInput'.new_position - lastInput'.delta) >= position_change_threshold
          THEN is_pending_cancel_all' /\ is_pending_hedge'
          ELSE UNCHANGED latchVars ]_vars

\* C4 witness: a change equal to the threshold has just set both latches
C4_Witness ==
    /\ IsNetPositionChange
    /\ Abs(lastInput.new_position - lastInput.delta) = position_change_threshold
    /\ is_pending_cancel_all /\ is_pending_hedge

\* C5: on a reference tick whose lookups return, _validate_trading_conditions
\* returns without raising; with perp mid, spot mid, funding and margin all
\* present it returns true iff margin < margin_usage_threshold and either
\* (funding > 0, funding > threshold, basis > threshold) or (funding < 0,
\* -funding > threshold, -basis > threshold), basis = (perp - spot) / spot;
\* with any of the four absent it returns false.
C5_ValidateIffConditions ==
    (IsReferenceTick /\ ~lastInput.lookup_raised) =>
        /\ validateResult \in {"true", "false"}
        /\ raised \in {NoException, "TypeError"}
        /\ IF \/ IsNone(current_perp_mid_price) \/ IsNone(current_spot_mid_price)
              \/ IsNone(current_funding_rate) \/ IsNone(current_margin_usage)
           THEN validateResult = "false"
           ELSE LET f == Val(current_funding_rate)
                    m == Val(current_margin_usage)
                    pm == Val(current_perp_mid_price)
                    sm == Val(current_spot_mid_price)
                    \* basis > t and -basis > t, multiplied through by spot mid > 0
                    basisAbove == (pm - sm) * 1000 > basis_threshold * sm
                    basisBelow == (sm - pm) * 1000 > basis_threshold * sm
                IN  (validateResult = "true") <=>
                        /\ m < margin_usage_threshold
                        /\ \/ (f > 0 /\ f > funding_rate_threshold /\ basisAbove)
                           \/ (f < 0 /\ -f > funding_rate_threshold /\ basisBelow)

\* C5 witness: conditions met through the negative-funding branch
C5_Witness ==
    /\ IsReferenceTick /\ ~lastInput.lookup_raised
    /\ validateResult = "true"
    /\ Val(current_funding_rate) < 0

\* C6: after every _validate_trading_conditions call trading_direction is set
\* iff the call returned true; with positive funding it is SELL when the perp
\* is quoted and BUY when the spot is, with negative funding the mirror; a
\* call that does not return true leaves no direction from an earlier tick.
C6_DirectionIffMet ==
    (IsTick /\ validateResult # "not_called") =>
        /\ (~IsNone(trading_direction)) <=> (validateResult = "true")
        /\ validateResult = "true" =>
              trading_direction =
                 Some(IF Val(current_funding_rate) > 0
                      THEN (IF quoting_class = PERP THEN SELL ELSE BUY)
                      ELSE (IF quoting_class = PERP THEN BUY ELSE SELL))

\* C6 witness: negative funding with the perp quoted chooses BUY
C6_Witness ==
    /\ IsTick /\ validateResult = "true"
    /\ quoting_class = PERP
    /\ Val(current_funding_rate) < 0
    /\ trading_direction = Some(BUY)

\* C7: while send_orders is false no handler makes any Order Manager request.
C7_NoRequestsWhenNotSending ==
    ~send_orders => requests = <<>>

\* C7 witness: a cancel-all was serviced while send_orders is false
C7_Witness ==
    /\ ~send_orders
    /\ IsUpdate
    /\ calls = <<"_cancel_all_orders">>

\* C8: a reference-market tick that finds the strategy trading switch
\* disabled stages no quotes for sending and sets PendingCancelAll.
C8_DisabledSwitchCancelsAll ==
    [][ (IsReferenceTick' /\ ~lastInput'.enabled) =>
          (StagedQuotes' = <<>> /\ is_pending_cancel_all') ]_vars

\* C9: with send_orders true, an update cycle that runs with neither latch
\* pending submits every staged quote to the Order Manager as a new order
\* request.
C9_StagedQuotesSubmitted ==
    [][ (IsUpdate' /\ send_orders /\ ~is_pending_cancel_all /\ ~is_pending_hedge) =>
          \A i \in DOMAIN StagedQuotes :
             \E j \in DOMAIN requests' :
                /\ requests'[j].request = "new_order_request"
                /\ requests'[j].account_id = quoting_account
                /\ requests'[j].price = StagedQuotes[i].price
                /\ requests'[j].quantity = StagedQuotes[i].quantity ]_vars

\* C10: when the funding-rate or margin-usage lookup raises during a tick, the
\* exception does not escape on_order_book_tick, PendingCancelAll is set and
\* no quotes are staged.
C10_TickExceptionContained ==
    [][ (IsReferenceTick' /\ lastInput'.lookup_raised) =>
          /\ raised' = NoException
          /\ is_pending_cancel_all'
          /\ UNCHANGED stagedVars ]_vars

\* ---------------------------------------------------------- OrderThrottle
IsThrottleCall == lastOp = "OrderThrottle.on_order_book_tick"

\* self._last_time_we_sent_quotes.get(account, 0)
LastSent(last, account) == IF account \in DOMAIN last THEN last[account] ELSE 0

\* the call made in this step finds the account's time gate closed / open
GateClosedAtCall ==
    IsThrottleCall' /\ now - LastSent(last_time_we_sent_quotes, throttleInput'.account)
                          < time_throttle
GateOpenAtCall ==
    IsThrottleCall' /\ now - LastSent(last_time_we_sent_quotes, throttleInput'.account)
                          >= time_throttle

\* C11: a throttle call made when now - last-sent(account) < time_throttle
\* returns no quotes and no cancellations, whatever its inputs, and leaves
\* every account's last-sent time unchanged.
C11_SnoozeIsFull ==
    [][ GateClosedAtCall =>
          /\ throttleOutput'.quotes = <<>>
          /\ throttleOutput'.cancel = {}
          /\ UNCHANGED last_time_we_sent_quotes ]_vars

\* C11 witness: a snoozed call that was given quotes and found no live orders
C11_Witness ==
    /\ IsThrottleCall
    /\ throttleInput.raw_quotes # <<>> /\ throttleInput.orders = <<>>
    /\ LastSent(last_time_we_sent_quotes, throttleInput.account) = throttleInput.time
    /\ throttleOutput.quotes = <<>>

\* C12: of two consecutive throttle calls for the same account less than
\* time_throttle apart, the second returns no quotes and no cancellations,
\* whatever the inputs of either call (the account having no live orders at
\* the first call included).  Stated for a first call that returned quotes
\* to send, the case the time gate is there for.
C12_SecondCallWithinThrottleIsEmpty ==
    [][ ( /\ IsThrottleCall /\ IsThrottleCall'
          /\ throttleOutput.quotes # <<>>
          /\ throttleInput'.account = throttleInput.account
          /\ throttleInput'.time - throttleInput.time < time_throttle ) =>
          /\ throttleOutput'.quotes = <<>>
          /\ throttleOutput'.cancel = {} ]_vars

\* C13: with the time gate open and no live orders the call returns exactly
\* the intended quotes and an empty cancel set.
C13_NoLiveOrdersPassThrough ==
    [][ (GateOpenAtCall /\ throttleInput'.orders = <<>>) =>
          /\ throttleOutput'.quotes = throttleInput'.raw_quotes
          /\ throttleOutput'.cancel = {} ]_vars

\* C13 witness: both intended quotes passed through with no live orders
C13_Witness ==
    /\ IsThrottleCall
    /\ throttleInput.orders = <<>>
    /\ Len(throttleInput.raw_quotes) = 2
    /\ throttleOutput.quotes = throttleInput.raw_quotes

\* the only live order is identical to the only intended quote, mid unchanged
IdenticalPair(input) ==
    /\ Len(input.raw_quotes) = 1 /\ Len(input.orders) = 1
    /\ input.orders[1].side = input.raw_quotes[1].side
    /\ input.orders[1].quote_width = input.raw_quotes[1].quote_width
    /\ input.orders[1].price = input.raw_quotes[1].price
    /\ input.orders[1].market_mid = input.raw_quotes[1].market_mid

\* C14: with the time gate open, one intended quote and one live order
\* identical to it (side, width, price, mid), the call returns nothing to send
\* and nothing to cancel and leaves the last-sent times as they were - so the
\* gate stays open and every repetition of the call does the same.
C14_IdenticalOrderIsIdempotent ==
    [][ (GateOpenAtCall /\ IdenticalPair(throttleInput')) =>
          /\ throttleOutput'.quotes = <<>>
          /\ throttleOutput'.cancel = {}
          /\ UNCHANGED last_time_we_sent_quotes ]_vars

\* C14 witness: such a call was made after time had passed
C14_Witness ==
    /\ IsThrottleCall
    /\ IdenticalPair(throttleInput)
    /\ throttleInput.time > StartTime
    /\ throttleOutput.quotes = <<>>

\* the live orders with the side and width of quote q, by position
MatchingOrders(q, orders) ==
    { i \in 1..Len(orders) :
        orders[i].side = q.side /\ orders[i].quote_width = q.quote_width }

\* the live order quote q is compared with: the first that matches
ComparedOrder(q, orders) ==
    orders[CHOOSE i \in MatchingOrders(q, orders) :
              \A j \in MatchingOrders(q, orders) : i <= j]

\* the claim's replacement rule for quote q against live order o
ShouldReplace(q, o) ==
    \/ Abs(q.market_mid - o.market_mid) * 1000 > price_throttle * q.market_mid
    \/ (q.side = BUY /\ q.price < o.price)
    \/ (q.side = SELL /\ q.price > o.price)

C16_LastSentChangesOnlyOnSend ==
    [][ \A a \in ThrottleAccounts :
          (LastSent(last_time_we_sent_quotes', a) # LastSent(last_time_we_sent_quotes, a)) =>
              /\ IsThrottleCall'
              /\ throttleInput'.account = a
              /\ throttleOutput'.quotes # <<>> ]_vars

\* C16 witness: a call for one account stamped it and left the other unstamped
C16_Witness ==
    /\ IsThrottleCall
    /\ throttleOutput.quotes # <<>>
    /\ LastSent(last_time_we_sent_quotes, throttleInput.account) = throttleInput.time
    /\ \E a \in ThrottleAccounts : LastSent(last_time_we_sent_quotes, a) = 0

\* C17: every throttle call that returns quotes to send records its time as
\* the account's last-sent time, so two such calls for one account are at
\* least time_throttle apart.
C17_SendsRecordedAndSpaced ==
    [][ (IsThrottleCall' /\ throttleOutput'.quotes # <<>>) =>
          /\ LastSent(last_time_we_sent_quotes', throttleInput'.account) = throttleInput'.time
          /\ ( /\ IsThrottleCall /\ throttleOutput.quotes # <<>>
               /\ throttleInput.account = throttleInput'.account ) =>
                   throttleInput'.time - throttleInput.time >= time_throttle ]_vars

\* ------------------------------------------------------------ RiskManager
IsRiskCheck == lastOp = "_run_risk_checks"

\* the position did not move while the check ran: its reads agree
SteadyReads(check) == check.again = check.delta /\ check.risks.delta = check.delta

\* delta strictly between 80% and 100% of the max_delta / min_delta limit
InUpperBand(delta) ==
    8 * risk_limit.max_delta < 10 * delta /\ delta < risk_limit.max_delta
InLowerBand(delta) ==
    risk_limit.min_delta < delta /\ 10 * delta < 8 * risk_limit.min_delta

\* every dimension of r within its closed [min, max]
WithinEveryLimit(r) ==
    /\ risk_limit.min_delta <= r.delta /\ r.delta <= risk_limit.max_delta
    /\ risk_limit.min_gamma <= r.gamma /\ r.gamma <= risk_limit.max_gamma
    /\ risk_limit.min_theta <= r.theta /\ r.theta <= risk_limit.max_theta
    /\ risk_limit.min_vega <= r.vega /\ r.vega <= risk_limit.max_vega
    /\ risk_limit.min_rho <= r.rho /\ r.rho <= risk_limit.max_rho

\* C18: after a risk check made with cumulative PnL not below -max_loss and
\* total delta strictly between 80% and 100% of the max_delta limit or of the
\* min_delta limit, is_reduce_only() is true.
C18_NearLimitIsReduceOnly ==
    ( /\ IsRiskCheck /\ SteadyReads(riskCheck)
      /\ ~(pnl_so_far < -max_loss)
      /\ (InUpperBand(riskCheck.delta) \/ InLowerBand(riskCheck.delta)) ) =>
        is_reduce_only

\* C19: each risk check applies exactly one case, the first that matches of
\* (1) PnL < -max_loss: add issue max_loss_reached; (2) delta near a limit:
\* set reduce-only; (3) risk vector outside RiskLimit: add issue
\* risk_limit_exceeded; (4) otherwise: resolve both issues and clear the
\* internal reduce-only flag.
C19_ExactlyOneCaseInOrder ==
    [][ (IsRiskCheck' /\ SteadyReads(riskCheck')) =>
          IF pnl_so_far < -max_loss
          THEN /\ issues' = issues \cup {"max_loss_reached"}
               /\ reduce_only' = reduce_only
          ELSE IF InUpperBand(riskCheck'.delta) \/ InLowerBand(riskCheck'.delta)
          THEN /\ reduce_only' = TRUE
               /\ issues' = issues
          ELSE IF ~WithinEveryLimit(riskCheck'.risks)
          THEN /\ issues' = issues \cup {"risk_limit_exceeded"}
               /\ reduce_only' = reduce_only
          ELSE /\ issues' = issues \ {"max_loss_reached", "risk_limit_exceeded"}
               /\ reduce_only' = FALSE ]_vars

\* C20: is_reduce_only() is true whenever the config reduce_only flag is
\* true, and after any risk check in which total delta was in the proximity
\* band of a limit or the risk vector was outside RiskLimit.
C20_ReduceOnlyDerivedEachCycle ==
    /\ config_reduce_only => is_reduce_only
    /\ ( /\ IsRiskCheck /\ SteadyReads(riskCheck)
         /\ \/ InUpperBand(riskCheck.delta) \/ InLowerBand(riskCheck.delta)
            \/ ~WithinEveryLimit(riskCheck.risks) ) =>
           is_reduce_only


\* ------------------------------------------------ RiskManager: sides, alerts
IsSidesCall == lastOp = "is_sending"
SidesSteady == sides.delta_bids = sides.delta_asks

\* C21: is_sending_bids() is false exactly when the manager is reduce-only and
\* the total delta is above 0, is_sending_asks() is false exactly when it is
\* reduce-only and the delta is below 0; so for one delta at least one side is
\* permitted, and both are when the manager is not reduce-only or the delta is 0.
C21_SideSuppressedIffReduceOnlyAndSameSign ==
    IsSidesCall =>
        /\ ~sides.bids <=> (is_reduce_only /\ sides.delta_bids > 0)
        /\ ~sides.asks <=> (is_reduce_only /\ sides.delta_asks < 0)
        /\ SidesSteady => (sides.bids \/ sides.asks)
        /\ (~is_reduce_only \/ (SidesSteady /\ sides.delta_bids = 0))
              => (sides.bids /\ sides.asks)

C21_Witness ==
    /\ IsSidesCall
    /\ is_reduce_only
    /\ SidesSteady
    /\ sides.delta_bids > 0
    /\ ~sides.bids
    /\ sides.asks

IsAlertCall == lastOp = "raise_alert"
SinkEventsOf(sink, key) == { e \in sink : e.key = key }

\* C22: an alert that is forwarded to the sink comes more than the call's
\* frequency_limit after every alert forwarded earlier for the same key; a
\* suppressed call forwards nothing and leaves the key's last-alert time as it
\* was; a call never changes the last-alert time of another key.
C22_ForwardedAlertsAreSpaced ==
    [][ /\ alertSink \subseteq alertSink'
        /\ \A e \in alertSink' \ alertSink :
             /\ e.key = alertCall'.key
             /\ \A f \in SinkEventsOf(alertSink, e.key) :
                  e.time - f.time > alertCall'.frequency_limit
        /\ (IsAlertCall' /\ ~alertCall'.forwarded) =>
             /\ alertSink' = alertSink
             /\ alert_key_to_last_alert_timestamp' = alert_key_to_last_alert_timestamp
        /\ IsAlertCall' =>
             \A key \in (DOMAIN alert_key_to_last_alert_timestamp
                           \cup DOMAIN alert_key_to_last_alert_timestamp')
                          \ {alertCall'.key} :
                /\ key \in DOMAIN alert_key_to_last_alert_timestamp
                /\ key \in DOMAIN alert_key_to_last_alert_timestamp'
                /\ alert_key_to_last_alert_timestamp'[key]
                     = alert_key_to_last_alert_timestamp[key]
      ]_vars

C22_Witness ==
    /\ IsAlertCall
    /\ ~alertCall.forwarded
    /\ alertCall.frequency_limit = 2
    /\ \E e \in alertSink : \E f \in alertSink :
         e.key = alertCall.key /\ f.key = alertCall.key /\ e.time - f.time = 2
    /\ \E g \in alertSink : g.key # alertCall.key


\* ------------------------------------- RiskManager: large position change
IsStopCheck == lastOp = "should_stop_trading_on_large_position_change"
HasLargeIssue == large_position_change \in issues

\* C23: once the 'large position change' issue is there, it is resolved only
\* by a call at which the change is not large and at least
\* large_fill_cooldown_time has passed since the cooldown started; every call
\* made while the issue stays returns true; and the cooldown start time is set
\* only by the call that newly adds the issue.
C23_IssueHeldUntilCooldownOver ==
    [][ /\ (HasLargeIssue /\ ~HasLargeIssue') =>
             /\ IsStopCheck'
             /\ ~stopCheck'.large
             /\ now' - large_fill_cooldown_start_time >= large_fill_cooldown_time
        /\ (IsStopCheck' /\ HasLargeIssue /\ HasLargeIssue') => stopCheck'.result = TRUE
        /\ large_fill_cooldown_start_time' # large_fill_cooldown_start_time =>
             IsStopCheck' /\ ~HasLargeIssue /\ HasLargeIssue'
      ]_vars

IsPoll == lastOp = "MetricCollector._run"

\* C24: every poll of the net position appends exactly the polled position, a
\* position of 0 included, to the ring buffer, which never holds more than
\* max_length samples and gives up its oldest sample when it is full.
C24_EveryPollAppendsOneSample ==
    IsPoll =>
        /\ Len(poll.after) <= max_length
        /\ poll.after = IF Len(poll.before) < max_length
                        THEN Append(poll.before, poll.data_point)
                        ELSE Append(Tail(poll.before), poll.data_point)


\* -------------------------------------------------------------------- TWAP
IsTwapInterval == lastOp = "TWAP.on_order_book_tick"
TwapBuys == twap_config.direction = "buy"

\* C25: a TWAP interval at which the mid is unavailable, or the direction is
\* buy and the mid is above the price threshold, or the direction is sell and
\* the mid is below it, changes neither the remaining size nor the
\* RiskManager's TWAP delta.
C25_SkippedIntervalChangesNothing ==
    [][ ( /\ IsTwapInterval'
          /\ \/ IsNone(twapStep'.mid)
             \/ TwapBuys /\ Val(twapStep'.mid) > twap_config.price_threshold
             \/ ~TwapBuys /\ Val(twapStep'.mid) < twap_config.price_threshold )
        => /\ twap_total_size' = twap_total_size
           /\ twap_delta' = twap_delta
      ]_vars

C25_Witness ==
    /\ IsTwapInterval
    /\ twapStep.skipped
    /\ ~IsNone(twapStep.mid)
    /\ twap_total_size > 0
    /\ twap_delta # 0

\* C26: an interval that is not skipped adds min(remaining size, step size) to
\* the RiskManager's TWAP delta, negative for buy and positive for sell, and
\* takes the same amount off the remaining size; so the remaining size is never
\* negative and |TWAP delta| + remaining size is the configured total size.
C26_InjectsMinOfRemainingAndStep ==
    [][ /\ (IsTwapInterval' /\ ~twapStep'.skipped) =>
             LET size == IF twap_total_size < twap_config.step_size
                         THEN twap_total_size ELSE twap_config.step_size
             IN  /\ twap_total_size' = twap_total_size - size
                 /\ twap_delta' = twap_delta + (IF TwapBuys THEN -size ELSE size)
        /\ twap_total_size' >= 0
        /\ Abs(twap_delta') + twap_total_size' = twap_config.total_size
      ]_vars

C26_Witness ==
    /\ IsTwapInterval
    /\ ~twapStep.skipped
    /\ twapStep.size > 0
    /\ twapStep.size < twap_config.step_size
    /\ twap_total_size = 0
    /\ Abs(twap_delta) = twap_config.total_size

\* C27: once the remaining size is 0 it stays 0, and no later interval changes
\* the RiskManager's TWAP delta or notifies the market maker of a position
\* update.
C27_NoOpOnceExhausted ==
    [][ twap_total_size = 0 =>
          /\ twap_total_size' = 0
          /\ twap_delta' = twap_delta
          /\ IsTwapInterval' => ~twapStep'.notified
      ]_vars

C27_Witness ==
    /\ IsTwapInterval
    /\ twap_config.total_size > 0
    /\ twap_total_size = 0
    /\ ~twapStep.skipped
    /\ twapStep.size = 0
    /\ twapStep.exc = NoException


\* ------------------------------------------------------------- LinearFader
IsFaderCall == lastOp = "LinearFader.on_order_book_tick"
FaderQuoted == faderCall.enabled /\ faderCall.kpis # <<>> /\ ~IsNone(faderCall.mid)
IsQuotedLevel(level) == level.size >= 1
QuotedLevels == SelectSeq(faderCall.kpis, IsQuotedLevel)

\* mid - delta * penalty clamped into [0.9 * mid, 1.1 * mid]
ClampedFair ==
    LET market_mid == Val(faderCall.mid)
        raw == market_mid - faderCall.delta * penalty
    IN  IF 10 * raw < 9 * market_mid THEN (9 * market_mid) \div 10
        ELSE IF 10 * raw > 11 * market_mid THEN (11 * market_mid) \div 10
        ELSE raw

\* C28: with the trading switch on, a ladder and a positive mid, the fader
\* prices every level off mid - delta * penalty clamped into
\* [0.9 * mid, 1.1 * mid]: the bid of depth d lies in
\* [0.9 * mid * (1 - d), 1.1 * mid * (1 - d)], the ask in
\* [0.9 * mid * (1 + d), 1.1 * mid * (1 + d)]; each ladder entry of dollar size
\* >= 1 gives exactly one Buy and one Sell tagged with its depth, an entry
\* below 1 gives none.
C28_FairValueClampedAndOnePairPerLevel ==
    (IsFaderCall /\ FaderQuoted /\ Val(faderCall.mid) > 0) =>
        /\ faderCall.exc = NoException
        /\ Len(faderCall.quotes) = 2 * Len(QuotedLevels)
        /\ \A i \in 1..Len(QuotedLevels) :
             LET d == QuotedLevels[i].depth
                 bid == faderCall.quotes[2 * i - 1]
                 ask == faderCall.quotes[2 * i]
                 market_mid == Val(faderCall.mid)
             IN  /\ bid.side = BUY /\ bid.quote_width = d
                 /\ ask.side = SELL /\ ask.quote_width = d
                 /\ 1000 * bid.price = ClampedFair * (1000 - d)
                 /\ 1000 * ask.price = ClampedFair * (1000 + d)
                 /\ 9 * market_mid * (1000 - d) <= 10000 * bid.price
                 /\ 10000 * bid.price <= 11 * market_mid * (1000 - d)
                 /\ 9 * market_mid * (1000 + d) <= 10000 * ask.price
                 /\ 10000 * ask.price <= 11 * market_mid * (1000 + d)

C28_Witness ==
    /\ IsFaderCall
    /\ FaderQuoted
    /\ faderCall.kpis = quoting_kpis
    /\ faderCall.delta = 20
    /\ Len(faderCall.quotes) = 2
    /\ 10000 * faderCall.quotes[1].price = 9 * Val(faderCall.mid) * (1000 - 10)


\* ----------------------------------------------------------- QuoteAdjuster
IsAdjusterCall == lastOp = "QuoteAdjuster.on_order_book_tick"
AdjusterReturned == IsAdjusterCall /\ adjusterCall.exc = NoException
NoBackOffOrWidening ==
    /\ ~adjusterCall.widen
    /\ IsNone(adjusterCall.market_vwap)
    /\ IsNone(adjusterCall.vwap_buy)
    /\ IsNone(adjusterCall.vwap_sell)
ChargedFee == IF maker_fee > 0 THEN maker_fee ELSE 0

\* C29: with improve_bbo off, whatever the VWAP back-off, the widening, the fee
\* and the rounding do, an adjusted Buy is priced at or below the best bid and
\* an adjusted Sell at or above the best ask; a quote that reaches the clamp
\* inside the best bid / ask leaves it at the best bid / ask, and fee and
\* rounding are applied to that.
C29_AdjustedQuotesNeverImproveBbo ==
    (AdjusterReturned /\ ~improve_bbo) =>
        \A i \in 1..Len(adjusterCall.adjusted) :
            LET q == adjusterCall.quotes[i]
                a == adjusterCall.adjusted[i]
                best_bid == Val(adjusterCall.m.best_bid)
                best_ask == Val(adjusterCall.m.best_ask)
                bid_after_fee == best_bid - (best_bid * ChargedFee) \div 1000
                ask_after_fee == best_ask + (best_ask * ChargedFee) \div 1000
            IN  /\ a.side = q.side
                /\ a.side = BUY => a.price <= best_bid
                /\ a.side = SELL => a.price >= best_ask
                /\ (a.side = BUY /\ NoBackOffOrWidening /\ q.price > best_bid) =>
                     /\ a.price <= bid_after_fee
                     /\ bid_after_fee - a.price < quote_asset_precision
                     /\ a.price % quote_asset_precision = 0
                /\ (a.side = SELL /\ NoBackOffOrWidening /\ q.price < best_ask) =>
                     /\ a.price >= ask_after_fee
                     /\ a.price - ask_after_fee < quote_asset_precision
                     /\ a.price % quote_asset_precision = 0

C29_Witness ==
    /\ AdjusterReturned
    /\ maker_fee = 1
    /\ adjusterCall.m.best_bid = Some(100350)
    /\ adjusterCall.m.best_ask = Some(100450)
    /\ NoBackOffOrWidening
    /\ \E i \in 1..Len(adjusterCall.adjusted) :
         /\ adjusterCall.quotes[i].side = BUY
         /\ adjusterCall.quotes[i].price > 100350
         /\ adjusterCall.adjusted[i].price = 100200
    /\ \E i \in 1..Len(adjusterCall.adjusted) :
         /\ adjusterCall.quotes[i].side = SELL
         /\ adjusterCall.quotes[i].price < 100450
         /\ adjusterCall.adjusted[i].price = 100600


\* -------------------------------------------------------------- SimpleVWAP
IsGetVwap == lastOp = "SimpleVWAP.get_vwap"

RECURSIVE SumPriceQty(_)
SumPriceQty(ts) ==
    IF ts = <<>> THEN 0 ELSE Head(ts).price * Head(ts).amount + SumPriceQty(Tail(ts))

RECURSIVE SumQty(_)
SumQty(ts) == IF ts = <<>> THEN 0 ELSE Head(ts).amount + SumQty(Tail(ts))

AllAddedInWindow ==
    \A i \in 1..Len(addedTrades) : addedTrades[i].timestamp >= CutoffTime(now)

\* C30: after any sequence of add_trade and get_vwap calls the running totals
\* are the sums of price * qty and of qty over exactly the trades held in the
\* queue; and when every trade added so far lies within the trailing window,
\* get_vwap returns the sum of price * qty over the sum of qty of all of them.
C30_TotalsMatchQueue ==
    /\ total_pv = SumPriceQty(trades)
    /\ total_volume = SumQty(trades)
    /\ (IsGetVwap /\ addedTrades # <<>> /\ AllAddedInWindow) =>
         /\ trades = addedTrades
         /\ vwapCall.exc = NoException
         /\ vwapCall.result = Some((SumPriceQty(addedTrades) * 1000) \div SumQty(addedTrades))

C30_Witness ==
    /\ IsGetVwap
    /\ Len(trades) >= 2
    /\ Len(addedTrades) > Len(trades)
    /\ trades[1].price # trades[2].price
    /\ ~IsNone(vwapCall.result)


\* the trades added so far whose timestamp is inside the trailing window now
InWindowAdded ==
    SelectSeq(addedTrades, LAMBDA t : t.timestamp >= CutoffTime(now))

\* C31: a trade older than the trailing window at query time never contributes
\* to the value get_vwap returns, whatever the order the trades were added in:
\* a returned value is the quotient over the in-window trades alone.
C31_OldTradesNeverContribute ==
    (IsGetVwap /\ ~IsNone(vwapCall.result)) =>
        /\ SumQty(InWindowAdded) > 0
        /\ vwapCall.result =
               Some(Quotient(SumPriceQty(InWindowAdded), SumQty(InWindowAdded)))

\* C32: get_vwap returns None and does not fail whenever the volume inside the
\* trailing window is zero, also when every trade added has aged out.
C32_AbsentWhenWindowEmpty ==
    (IsGetVwap /\ SumQty(InWindowAdded) = 0) =>
        /\ IsNone(vwapCall.result)
        /\ vwapCall.exc = NoException


\* ------------------------------------------- RiskManager: issues and breaches
\* C37: after a risk check made with cumulative PnL not below -max_loss and the
\* total risk vector within the risk limit, neither max_loss_reached nor
\* risk_limit_exceeded is among the trading switch's issues.
C37_BreachIssueNeverOutlivesBreach ==
    (IsRiskCheck /\ pnl_so_far >= -max_loss /\ WithinEveryLimit(riskCheck.risks)) =>
        issues \cap {"max_loss_reached", "risk_limit_exceeded"} = {}


\* ------------------------------------------- OrderThrottle: cancel and replace
\* C38: in every result of the throttle each cancelled order id belongs to a
\* live order with the side and quote_width of some quote in the returned send
\* list, and no more ids are cancelled than quotes are sent: no live order is
\* cancelled without a replacement quote in the same decision.
C38_EveryCancelHasReplacement ==
    IsThrottleCall =>
        /\ \A id \in throttleOutput.cancel :
             \E i \in 1..Len(throttleInput.orders) :
               /\ throttleInput.orders[i].order_id = id
               /\ \E k \in 1..Len(throttleOutput.quotes) :
                    /\ throttleOutput.quotes[k].side = throttleInput.orders[i].side
                    /\ throttleOutput.quotes[k].quote_width
                           = throttleInput.orders[i].quote_width
        /\ Cardinality(throttleOutput.cancel) <= Len(throttleOutput.quotes)

C38_Witness ==
    /\ IsThrottleCall
    /\ Len(throttleInput.orders) = 2
    /\ throttleOutput.cancel # {}
    /\ Len(throttleOutput.quotes) = 2
    /\ Cardinality(throttleOutput.cancel) < Len(throttleOutput.quotes)


\* ------------------------------------------------------- TWAP: completion
\* an interval at which the mid was available and on the permitted side of the
\* price threshold
TwapInjects == IsTwapInterval /\ ~twapStep.skipped

\* C39: with step_size > 0, if the mid price is available and on the permitted
\* side of the price threshold at infinitely many TWAP intervals, the remaining
\* size eventually reaches 0 and the TWAP-injected delta then has the magnitude
\* of the configured total size.
C39_TwapEventuallyCompletes ==
    (twap_config.step_size > 0 /\ []<><<TwapInjects'>>_vars) =>
        <>(twap_total_size = 0 /\ Abs(twap_delta) = twap_config.total_size)

C39_Witness ==
    /\ TwapInjects
    /\ twap_config.total_size = 3
    /\ twap_config.step_size = 2
    /\ twapStep.size = 1
    /\ twap_total_size = 0
    /\ Abs(twap_delta) = twap_config.total_size


\* ------------------------------------------------------------ RiskLimit
IsLimitCheck == lastOp = "Risk.is_within_risk_limits"

\* every Greek of r in the closed interval [min, max] of its own dimension
InEveryInterval(r, L) ==
    /\ L.min_delta <= r.delta /\ r.delta <= L.max_delta
    /\ L.min_gamma <= r.gamma /\ r.gamma <= L.max_gamma
    /\ L.min_theta <= r.theta /\ r.theta <= L.max_theta
    /\ L.min_vega <= r.vega /\ r.vega <= L.max_vega
    /\ L.min_rho <= r.rho /\ r.rho <= L.max_rho

\* C35: r.is_within_risk_limits(L) is true exactly when each of delta, gamma,
\* theta, vega and rho lies in the closed interval [L.min, L.max] of its own
\* dimension, and a RiskLimit constructed with the default bounds admits every
\* finite Risk.
C35_WithinIffEveryIntervalAndDefaultAdmitsAll ==
    IsLimitCheck =>
        /\ limitCheck.within <=> InEveryInterval(limitCheck.risk, limitCheck.limit)
        /\ limitCheck.limit = DefaultRiskLimit => limitCheck.within


\* ------------------------------------------------------ MarketData staleness
IsStaleQuery == lastOp = "MarketData.is_market_data_stale"
IsMidQuery == lastOp = "MarketData.get_mid_price"

\* the last update time the claim names, in ms: the tick's own book timestamp
\* when the book carries one, the wall-clock time of the tick otherwise
ClaimedLastUpdate(tick) ==
    IF ~IsNone(tick.raw.timestamp)
    THEN Val(tick.raw.timestamp)
    ELSE tick.time * MillisPerSecond

\* C34: is_market_data_stale() is true exactly when no tick was ever processed
\* or now - last update time >= the staleness threshold, the last update time
\* being the latest tick's book timestamp if it carries one and the wall-clock
\* time of that tick otherwise; and get_mid_price() is absent whenever the
\* latest tick left the best bid or the best ask unknown.
C34_StaleIffNoTickOrOld ==
    /\ IsStaleQuery =>
         (mdCall.stale <=>
            \/ IsNone(mdCall.tick)
            \/ now * MillisPerSecond - ClaimedLastUpdate(Val(mdCall.tick))
                   >= market_data_stale_time_threshold * MillisPerSecond)
    /\ (IsMidQuery /\ (\/ IsNone(mdCall.tick)
                       \/ Val(mdCall.tick).raw.bids = <<>>
                       \/ Val(mdCall.tick).raw.asks = <<>>)) =>
         IsNone(mdCall.mid)

C34_Witness ==
    /\ IsStaleQuery
    /\ ~IsNone(mdCall.tick)
    /\ ~IsNone(Val(mdCall.tick).raw.timestamp)
    /\ Val(Val(mdCall.tick).raw.timestamp) # Val(mdCall.tick).time * MillisPerSecond
    /\ now * MillisPerSecond - Val(Val(mdCall.tick).raw.timestamp)
           = market_data_stale_time_threshold * MillisPerSecond
    /\ now = Val(mdCall.tick).time + 1
    /\ mdCall.stale


\* ------------------------------------------------ BucketedVWAP and SimpleVWAP
IsVwapAsk == lastOp = "VWAP.get_vwap"

\* no trade added so far lies within one bucket resolution of the window boundary
AwayFromWindowBoundary ==
    \A i \in 1..Len(addedTrades) :
        Abs(addedTrades[i].timestamp - CutoffTime(now)) > time_resolution * MillisPerSecond

\* C33: a BucketedVWAP and a SimpleVWAP given the same trades agree on get_vwap
\* whenever no trade lies within one bucket resolution of the window boundary:
\* a trade is counted while its bucket is inside the window and removed once
\* its bucket is older.  Stated for the trades the BucketedVWAP accepted (run()
\* had started) and for the queries the SimpleVWAP answers without failing.
C33_BucketedAgreesWithSimple ==
    (IsVwapAsk /\ bucketed.ignored = 0 /\ vwapCall.exc = NoException
       /\ AwayFromWindowBoundary) =>
        bucketCall.result = vwapCall.result

====
